---- MODULE Spec2Model ----
(***************************************************************************)
(* A model of the game-backlog plugin's metadata aggregation workflow:     *)
(* the three API clients (IgdbClient, HltbClient, SteamGridDbClient) and   *)
(* the AddGameModal that drives them.  Every asynchronous method is split  *)
(* at its awaits: one action starts a call and runs it to its first        *)
(* network request, one action per response resumes it.                    *)
(***************************************************************************)
EXTENDS Integers, Sequences, FiniteSets, TLC

(***************************************************************************)
(* Bounds of the model.                                                    *)
(***************************************************************************)
MaxGrids == 2       \* longest grid list a response carries
MaxScore == 2       \* largest grid score a response carries
MaxIgdbCalls == 3   \* calls made on the IgdbClient instance
MaxTicks == 3       \* clock ticks the model runs for
MaxCandidates == 2  \* longest candidate list a search response carries
MaxFetches == 2     \* most fetch calls in a discovered script
MaxSubmits == 2     \* clicks on the submit button of the modal
MaxSearches == 2    \* queries the user types into the search input

(***************************************************************************)
(* Nullable values: null is the empty sequence, a value x is <<x>>.        *)
(***************************************************************************)
None == <<>>
Some(x) == <<x>>

(* Outcome of a call: still running, returned a value, or threw. *)
Running == [kind |-> "running", list |-> <<>>, err |-> ""]
Return(l) == [kind |-> "return", list |-> l, err |-> ""]
Throw(e) == [kind |-> "throw", list |-> <<>>, err |-> e]

RECURSIVE Join(_, _)
(* Array.prototype.join: the elements separated by sep. *)
Join(s, sep) ==
  IF Len(s) = 0 THEN ""
  ELSE IF Len(s) = 1 THEN s[1]
  ELSE s[1] \o sep \o Join(Tail(s), sep)

VARIABLES
  apiKey,       \* SteamGridDbClient.apiKey
  sgdbCalls,    \* the SteamGridDbClient calls in flight, by caller
  clientId,     \* IgdbClient.clientId
  clientSecret, \* IgdbClient.clientSecret
  accessToken,  \* IgdbClient.accessToken
  tokenExpiry,  \* IgdbClient.tokenExpiry, in ms; None is NaN
  igdbCalls,    \* the IgdbClient calls in flight, by caller
  now,          \* Date.now(), in ms
  igdbLog,      \* history: the requests the IgdbClient instance has sent
  igdbHist,     \* history: calls started, last token grant, calls outside its window
  authToken,    \* HltbClient.authToken
  searchUrl,    \* HltbClient.searchUrl
  hltbCalls,    \* the HltbClient calls in flight, by caller
  selectedGame, \* AddGameModal.selectedGame
  submitButton, \* AddGameModal.submitButton: disabled, and its text
  loadingEl,    \* AddGameModal.loadingEl.style.display
  notices,      \* history: the notices the modal has shown
  onSubmitCalls,\* history: the records handed to onSubmit
  closed,       \* the modal has closed itself
  submission,   \* the run of handleSubmit in flight
  clicks,       \* history: runs of handleSubmit started
  searchResults,   \* AddGameModal.searchResults, and the search that produced them
  resultsContainer,\* the results rendered in AddGameModal.resultsContainer
  searching,       \* the runs of performSearch in flight
  issued,          \* history: the queries performSearch sent to the catalog
  vault,           \* app.vault: what there is at each path
  noteCalls,       \* the runs of createGameNote in flight, by caller
  createLog,       \* history: the calls of vault.create
  pluginNotices,   \* history: the notices createGameNote has shown
  opened           \* history: the files handed to leaf.openFile

sgdbVars == <<apiKey, sgdbCalls>>
igdbVars == <<clientId, clientSecret, accessToken, tokenExpiry, igdbCalls, now, igdbLog, igdbHist>>
hltbVars == <<authToken, searchUrl, hltbCalls>>
searchVars == <<searchResults, searching, issued>>
modalVars ==
  <<selectedGame, submitButton, loadingEl, notices, onSubmitCalls, closed, submission, clicks,
    searchVars, resultsContainer>>
noteVars == <<vault, noteCalls, createLog, pluginNotices, opened>>
vars == <<sgdbVars, igdbVars, hltbVars, modalVars, noteVars>>

(***************************************************************************)
(* SteamGridDbClient                                                       *)
(***************************************************************************)
SgdbCallers == {"env", "cover"}

(* The public methods that return the promise of request. *)
SgdbListOps == {"searchGames", "getGrids", "getHeroes", "getLogos"}
MissingKeyError == "SteamGridDB API key not configured"

(* A call: where it stands, the method, the requests it sent, the responses it
   got and its outcome. *)
SgdbIdle == [pc |-> "idle", op |-> "", sent |-> <<>>, recv |-> <<>>, out |-> Running]

(* The endpoint of getGrids: one query parameter per option that is set. *)
StyleParam(o) == IF Len(o.styles) > 0 THEN <<"styles=" \o Join(o.styles, ",")>> ELSE <<>>
DimensionParam(o) ==
  IF Len(o.dimensions) > 0 THEN <<"dimensions=" \o Join(o.dimensions, ",")>> ELSE <<>>
NsfwParam(o) ==
  IF o.nsfw # None THEN <<"nsfw=" \o (IF o.nsfw[1] THEN "true" ELSE "false")>> ELSE <<>>
HumorParam(o) ==
  IF o.humor # None THEN <<"humor=" \o (IF o.humor[1] THEN "true" ELSE "false")>> ELSE <<>>
GridsEndpoint(o) ==
  LET params == StyleParam(o) \o DimensionParam(o) \o NsfwParam(o) \o HumorParam(o)
  IN [path |-> "/grids/game/",
      query |-> IF Len(params) > 0 THEN "?" \o Join(params, "&") ELSE ""]

NoOptions == [styles |-> <<>>, dimensions |-> <<>>, nsfw |-> None, humor |-> None]
StyledOptions ==
  [styles |-> <<"alternate", "blurred", "material">>, dimensions |-> <<>>,
   nsfw |-> Some(FALSE), humor |-> Some(FALSE)]
FallbackOptions == [styles |-> <<>>, dimensions |-> <<>>, nsfw |-> Some(FALSE), humor |-> None]
GridOptions ==
  {NoOptions, StyledOptions, FallbackOptions,
   [styles |-> <<>>, dimensions |-> <<"600x900">>, nsfw |-> Some(TRUE), humor |-> Some(TRUE)]}

(* The responses of the artwork service. *)
ScoreLists == UNION {[1..n -> 0..MaxScore] : n \in 0..MaxGrids}
GridUrl(id) == "https://cdn2.steamgriddb.com/grid/" \o ToString(id) \o ".png"
GridList(scores) ==
  [i \in 1..Len(scores) |-> [id |-> i, score |-> scores[i], url |-> GridUrl(i)]]
GridLists == {GridList(s) : s \in ScoreLists}
SgdbGameLists == {<<>>, <<[id |-> 1]>>, <<[id |-> 2], [id |-> 1]>>}
ErrorLists == {None, Some(<<>>), Some(<<"Error 1">>), Some(<<"Error 1", "Error 2">>)}
SgdbResponses(path) ==
  {[kind |-> "reject", data |-> <<>>, errors |-> None]}
  \cup {[kind |-> "error", data |-> <<>>, errors |-> e] : e \in ErrorLists}
  \cup {[kind |-> "ok", data |-> d, errors |-> None] :
          d \in IF path = "/search/autocomplete/" THEN SgdbGameLists ELSE GridLists}

(* The responses a call of the modal is answered with: a sample of them. *)
SgdbSample(path) ==
  {[kind |-> "reject", data |-> <<>>, errors |-> None],
   [kind |-> "error", data |-> <<>>, errors |-> None]}
  \cup {[kind |-> "ok", data |-> d, errors |-> None] :
          d \in IF path = "/search/autocomplete/" THEN {<<>>, <<[id |-> 1]>>}
                ELSE {<<>>, GridList(<<0>>), GridList(<<0, 1>>)}}
SgdbResponsesTo(c, path) == IF c = "env" THEN SgdbResponses(path) ELSE SgdbSample(path)

RECURSIVE InsertByScore(_, _)
(* g put into the list s, sorted by score descending, after its equals. *)
InsertByScore(g, s) ==
  IF Len(s) = 0 THEN <<g>>
  ELSE IF g.score > s[1].score THEN <<g>> \o s
  ELSE <<s[1]>> \o InsertByScore(g, Tail(s))

(* getBestGrid without the sort. *)
SortByScore_none(s) == s

RECURSIVE SortByScore(_)
(* grids.sort((a, b) => b.score - a.score): stable, score descending. *)
SortByScore(s) ==
  IF Len(s) = 0 THEN <<>>
  ELSE InsertByScore(s[Len(s)], SortByScore(SubSeq(s, 1, Len(s) - 1)))

(* request without the check of the API key. *)
Sgdb_requestStart_unchecked(call, endpoint, pc) ==
  [call EXCEPT !.pc = pc, !.sent = Append(call.sent, endpoint)]

(* request: what it does before its await. *)
Sgdb_requestStart(call, endpoint, pc) ==
  IF apiKey = ""
  THEN [call EXCEPT !.out = Throw(MissingKeyError)]
  ELSE [call EXCEPT !.pc = pc, !.sent = Append(call.sent, endpoint)]

(* request: what it returns or throws once the response is there. *)
Sgdb_requestEnd(resp) ==
  IF resp.kind = "reject" THEN Throw("request failed")
  ELSE IF resp.kind = "error"
  THEN LET joined == IF resp.errors = None THEN "" ELSE Join(resp.errors[1], ", ")
       IN Throw(IF joined # "" THEN joined ELSE "SteamGridDB API error")
  ELSE Return(resp.data)

(* getBestGrid without its try/catch. *)
Sgdb_finish_uncaught(call, out) == [call EXCEPT !.pc = "done", !.out = out]

(* A call that ended: a thrown error of getBestGrid is caught and becomes null. *)
Sgdb_finish(call, out) ==
  [call EXCEPT !.pc = "done",
               !.out = IF call.op = "getBestGrid" /\ out.kind = "throw"
                       THEN Return(None) ELSE out]

Sgdb_settle(call) == IF call.out.kind = "running" THEN call ELSE Sgdb_finish(call, call.out)

(* The start of a public method, up to its first await. *)
Sgdb_start(op, options) ==
  LET call == [SgdbIdle EXCEPT !.op = op]
      endpoint ==
        CASE op = "searchGames" -> [path |-> "/search/autocomplete/", query |-> ""]
          [] op = "getGrids" -> GridsEndpoint(options)
          [] op = "getHeroes" -> [path |-> "/heroes/game/", query |-> ""]
          [] op = "getLogos" -> [path |-> "/logos/game/", query |-> ""]
          [] op = "getBestGrid" -> GridsEndpoint(StyledOptions)
  IN Sgdb_settle(Sgdb_requestStart(call, endpoint, "await"))

(* The rest of a public method, from the response it awaited. *)
Sgdb_resume(call0, resp) ==
  LET call == [call0 EXCEPT !.recv = Append(call0.recv, resp)]
      out == Sgdb_requestEnd(resp)
  IN IF call.op # "getBestGrid" \/ out.kind = "throw" THEN Sgdb_finish(call, out)
     ELSE IF call.pc = "await"
     THEN IF Len(out.list) = 0
          THEN Sgdb_settle(Sgdb_requestStart(call, GridsEndpoint(FallbackOptions), "await2"))
          ELSE Sgdb_finish(call, Return(Some(SortByScore(out.list)[1])))
     ELSE Sgdb_finish(call, Return(IF Len(out.list) > 0 THEN Some(out.list[1]) ELSE None))

SgdbInit ==
  /\ apiKey \in {"", "key"}
  /\ sgdbCalls = [c \in SgdbCallers |-> SgdbIdle]

(* A caller outside the modal calls a public method. *)
Sgdb_call(c) ==
  /\ sgdbCalls[c].pc \in {"idle", "done"}
  /\ \E op \in SgdbListOps \cup {"getBestGrid"} :
       \E o \in IF op = "getGrids" THEN GridOptions ELSE {NoOptions} :
         sgdbCalls' = [sgdbCalls EXCEPT ![c] = Sgdb_start(op, o)]
  /\ UNCHANGED apiKey

(* The artwork service answers the request a call awaits. *)
Sgdb_respond(c) ==
  /\ sgdbCalls[c].pc \in {"await", "await2"}
  /\ \E resp \in SgdbResponsesTo(c, sgdbCalls[c].sent[Len(sgdbCalls[c].sent)].path) :
       sgdbCalls' = [sgdbCalls EXCEPT ![c] = Sgdb_resume(sgdbCalls[c], resp)]
  /\ UNCHANGED apiKey

NextSgdb ==
  \/ Sgdb_call("env") /\ UNCHANGED <<igdbVars, hltbVars, modalVars, noteVars>>
  \/ Sgdb_respond("env") /\ UNCHANGED <<igdbVars, hltbVars, modalVars, noteVars>>

(***************************************************************************)
(* IgdbClient                                                              *)
(***************************************************************************)
SearchSlots == {"search1", "search2"}
IgdbCallers == {"env", "submit"} \cup SearchSlots

MarginSeconds == 300
MsPerSecond == 1000
TickMs == 100 * MsPerSecond

(* limit is the limit argument of searchGames, None for the other methods;
   data is the result list the catalog answered with; fresh tells whether
   the call started inside the window of the last token grant. *)
IgdbIdle ==
  [pc |-> "idle", op |-> "", limit |-> None, sent |-> <<>>, recv |-> <<>>, data |-> <<>>,
   fresh |-> FALSE, out |-> Running]

(* The default of searchGames' limit, the limit performSearch passes, and
   the limits the other callers pass. *)
DefaultLimit == 10
ModalSearchLimit == 8
Limits == {1, DefaultLimit}

(* A JavaScript value used as a condition: null, undefined and "" are false. *)
Truthy(s) == s # None /\ s[1] # ""

(* Games of the catalog: aggregated_rating in tenths of a point. *)
RatingSamples ==
  {None, Some(0), Some(3), Some(5), Some(230), Some(850), Some(900), Some(924)}
IgdbGames ==
  [id : 1..2, aggregated_rating : RatingSamples, cover : {None, Some("co1wyy")}]
(* The search results the user can pick from. *)
SelectableGames ==
  {[id |-> 1, aggregated_rating |-> None, cover |-> None],
   [id |-> 2, aggregated_rating |-> Some(924), cover |-> Some("co1wyy")]}

IgdbGameLists ==
  {<<>>} \cup {<<g>> : g \in {h \in IgdbGames : h.aggregated_rating \in {None, Some(924)}}}
  \cup {<<[id |-> 2, aggregated_rating |-> Some(924), cover |-> None],
           [id |-> 1, aggregated_rating |-> None, cover |-> None]>>}

TokenResponses ==
  {[kind |-> "reject", access_token |-> None, expires_in |-> None]}
  \cup [kind : {"ok"}, access_token : {None, Some(""), Some("tok1"), Some("tok2")},
        expires_in : {None, Some(300), Some(500)}]
(* The body of a response that reports an error instead of games: the
   catalog's list of error objects. *)
IgdbErrorEnvelope == <<[title |-> "Syntax Error", status |-> 400]>>
(* requestUrl rejects ("reject": no answer, or an answer whose HTTP status
   makes it throw) or resolves with a list of games ("ok") or with an error
   envelope as its JSON ("error"). *)
CatalogResponses ==
  {[kind |-> "reject", data |-> <<>>], [kind |-> "error", data |-> IgdbErrorEnvelope]}
  \cup [kind : {"ok"}, data : IgdbGameLists]

(* The responses a call of the modal is answered with: a sample of them. *)
TokenResponsesTo(c) ==
  IF c = "env" THEN TokenResponses
  ELSE {r \in TokenResponses :
          r.kind = "reject" \/ (r.access_token = Some("tok1") /\ r.expires_in = Some(500))}
CatalogResponsesTo(c) ==
  IF c = "env" THEN CatalogResponses
  ELSE IF c \in SearchSlots
  THEN {[kind |-> "reject", data |-> <<>>], [kind |-> "ok", data |-> <<>>]}
       \cup {[kind |-> "ok", data |-> <<g>>] : g \in SelectableGames}
  ELSE {[kind |-> "reject", data |-> <<>>], [kind |-> "ok", data |-> <<>>]}
       \cup {[kind |-> "ok", data |-> <<g>>] :
               g \in {h \in IgdbGames : h.id = 1 /\ h.cover = None} \cup SelectableGames}

(* The catalog request, sent with the token the instance holds now. *)
Igdb_sendCatalog(call) ==
  [call EXCEPT !.pc = "awaitCatalog",
               !.sent = Append(call.sent, [kind |-> "catalog", bearer |-> accessToken])]

Igdb_sendToken(call) ==
  [call EXCEPT !.pc = "awaitToken",
               !.sent = Append(call.sent, [kind |-> "token", bearer |-> None])]

Igdb_throw(call, e) == [call EXCEPT !.pc = "done", !.out = Throw(e)]

(* The cached token taken as valid whatever its expiry. *)
TokenValid_ignoreExpiry == Truthy(accessToken)

TokenValid == Truthy(accessToken) /\ tokenExpiry # None /\ now < tokenExpiry[1]

(* ensureAccessToken without the check of the credentials. *)
Igdb_ensureAccessToken_noCredCheck(call) ==
  IF TokenValid THEN Igdb_sendCatalog(call) ELSE Igdb_sendToken(call)

(* request, from its start to the first await: ensureAccessToken returns at
   once with a valid cached token (and request sends the catalog request),
   throws without credentials, and otherwise requests a token. *)
Igdb_ensureAccessToken(call) ==
  IF TokenValid THEN Igdb_sendCatalog(call)
  ELSE IF clientId = "" \/ clientSecret = ""
  THEN Igdb_throw(call, "Twitch Client ID and Secret not configured")
  ELSE Igdb_sendToken(call)

(* The expiry with the margin taken in milliseconds instead of seconds. *)
Igdb_expiry_unscaled(e) == IF e = None THEN None ELSE Some(now + (e[1] - MarginSeconds))

(* The expiry recorded for a token of lifetime e seconds received now. *)
Igdb_expiry(e) == IF e = None THEN None ELSE Some(now + (e[1] - MarginSeconds) * MsPerSecond)

(* getGameById and getGameBySlug returning the last element of the list. *)
Igdb_result_last(op, data) ==
  IF op = "searchGames" THEN Return(data)
  ELSE Return(IF Len(data) > 0 THEN Some(data[Len(data)]) ELSE None)

(* What a public method returns from the catalog's result list. *)
Igdb_result(op, data) ==
  IF op = "searchGames" THEN Return(data)
  ELSE Return(IF Len(data) > 0 THEN Some(data[1]) ELSE None)

IgdbInit ==
  /\ clientId \in {"", "id"}
  /\ clientSecret \in {"", "secret"}
  /\ accessToken = None
  /\ tokenExpiry = Some(0)
  /\ igdbCalls = [c \in IgdbCallers |-> IgdbIdle]
  /\ now = TickMs
  /\ igdbLog = <<>>
  /\ igdbHist = [started |-> 0, grant |-> None, strayed |-> FALSE]

(* The window of the last token grant: from its arrival to its declared
   expiry less the margin. *)
InGrantWindow ==
  /\ igdbHist.grant # None
  /\ now < igdbHist.grant[1].at + (igdbHist.grant[1].expires_in - MarginSeconds) * MsPerSecond

(* A public method is called: searchGames, getGameById or getGameBySlug. *)
Igdb_start(c, op, limit) ==
  LET call == Igdb_ensureAccessToken(
                [IgdbIdle EXCEPT !.op = op, !.limit = limit, !.fresh = InGrantWindow])
  IN /\ igdbCalls' = [igdbCalls EXCEPT ![c] = call]
     /\ igdbLog' = igdbLog \o call.sent
     /\ igdbHist' = [igdbHist EXCEPT !.started = @ + 1,
                                     !.strayed = @ \/ (igdbHist.started > 0 /\ ~InGrantWindow)]
     /\ UNCHANGED <<clientId, clientSecret, accessToken, tokenExpiry, now>>

Igdb_call(c) ==
  /\ igdbCalls[c].pc \in {"idle", "done"}
  /\ igdbHist.started < MaxIgdbCalls
  /\ \/ \E limit \in Limits : Igdb_start(c, "searchGames", Some(limit))
     \/ \E op \in {"getGameById", "getGameBySlug"} : Igdb_start(c, op, None)

(* ensureAccessToken ignoring a failed token request. *)
Igdb_afterToken_swallow(call, resp) ==
  [call EXCEPT !.pc = "awaitCatalog",
               !.recv = Append(call.recv, resp.kind),
               !.sent = Append(call.sent,
                 [kind |-> "catalog",
                  bearer |-> IF resp.kind = "reject" THEN accessToken ELSE resp.access_token])]

(* The call after the token endpoint's answer: a rejection propagates out of
   ensureAccessToken and request; otherwise request sends the catalog
   request with the token just stored. *)
Igdb_afterToken(call, resp) ==
  IF resp.kind = "reject"
  THEN [Igdb_throw(call, "request failed") EXCEPT !.recv = Append(call.recv, resp.kind)]
  ELSE [call EXCEPT !.pc = "awaitCatalog",
                    !.recv = Append(call.recv, resp.kind),
                    !.sent = Append(call.sent, [kind |-> "catalog", bearer |-> resp.access_token])]

(* The token endpoint answers: ensureAccessToken stores the token and its
   expiry, and request goes on to send the catalog request. *)
Igdb_tokenResponse(c) ==
  /\ igdbCalls[c].pc = "awaitToken"
  /\ \E resp \in TokenResponsesTo(c) :
       LET call == Igdb_afterToken(igdbCalls[c], resp)
       IN /\ igdbCalls' = [igdbCalls EXCEPT ![c] = call]
          /\ igdbLog' = igdbLog \o SubSeq(call.sent, Len(igdbCalls[c].sent) + 1, Len(call.sent))
          /\ IF resp.kind = "reject"
             THEN UNCHANGED <<accessToken, tokenExpiry, igdbHist>>
             ELSE /\ accessToken' = resp.access_token
                  /\ tokenExpiry' = Igdb_expiry(resp.expires_in)
                  /\ igdbHist' = [igdbHist EXCEPT !.grant =
                       IF Truthy(resp.access_token) /\ resp.expires_in # None
                       THEN Some([at |-> now, expires_in |-> resp.expires_in[1]])
                       ELSE None]
  /\ UNCHANGED <<clientId, clientSecret, now>>

(* The catalog answers: the method returns, or the rejection propagates. *)
Igdb_catalogResponse(c) ==
  /\ igdbCalls[c].pc = "awaitCatalog"
  /\ \E resp \in CatalogResponsesTo(c) :
       igdbCalls' = [igdbCalls EXCEPT ![c] =
         IF resp.kind = "reject"
         THEN [Igdb_throw(@, "request failed") EXCEPT !.recv = Append(@, resp.kind)]
         ELSE [@ EXCEPT !.pc = "done", !.recv = Append(@, resp.kind),
                        !.data = resp.data,
                        !.out = Igdb_result(igdbCalls[c].op, resp.data)]]
  /\ UNCHANGED <<clientId, clientSecret, accessToken, tokenExpiry, now, igdbLog, igdbHist>>

(* Time passes. *)
Tick ==
  /\ now < MaxTicks * TickMs
  /\ now' = now + TickMs
  /\ UNCHANGED <<clientId, clientSecret, accessToken, tokenExpiry, igdbCalls, igdbLog, igdbHist>>

NextIgdb ==
  \/ Igdb_call("env") /\ UNCHANGED <<sgdbVars, hltbVars, modalVars, noteVars>>
  \/ Igdb_tokenResponse("env") /\ UNCHANGED <<sgdbVars, hltbVars, modalVars, noteVars>>
  \/ Igdb_catalogResponse("env") /\ UNCHANGED <<sgdbVars, hltbVars, modalVars, noteVars>>
  \/ Tick /\ UNCHANGED <<sgdbVars, hltbVars, modalVars, noteVars>>
(***************************************************************************)
(* HltbClient                                                              *)
(***************************************************************************)
(* The callers of overlapping calls on one instance. *)
OverlapCallers == {"first", "second"}
HltbCallers == {"env", "submit"} \cup OverlapCallers

HLTB_BASE_URL == "https://howlongtobeat.com"
DefaultSearchUrl == "/api/search"

(* Strings that are compared character by character are sequences of
   characters; every character is named. *)
LowerCase(ch) ==
  CASE ch = "A" -> "a"
    [] ch = "B" -> "b"
    [] ch = "E" -> "e"
    [] ch = "E_acute" -> "e_acute"
    [] OTHER -> ch

(* String.prototype.toLowerCase *)
RECURSIVE ToLowerCase(_)
ToLowerCase(str) ==
  IF Len(str) = 0 THEN <<>> ELSE <<LowerCase(str[1])>> \o ToLowerCase(Tail(str))

(* String.prototype.normalize('NFD'): a precomposed letter becomes its base
   letter followed by the combining mark. *)
RECURSIVE NormalizeNFD(_)
NormalizeNFD(str) ==
  IF Len(str) = 0 THEN <<>>
  ELSE (CASE str[1] = "e_acute" -> <<"e", "combining_acute">>
          [] str[1] = "E_acute" -> <<"E", "combining_acute">>
          [] OTHER -> <<str[1]>>) \o NormalizeNFD(Tail(str))

RECURSIVE Remove(_, _)
(* replace(/[class]/g, ''): the characters of the class removed. *)
Remove(str, class) ==
  IF Len(str) = 0 THEN <<>>
  ELSE (IF str[1] \in class THEN <<>> ELSE <<str[1]>>) \o Remove(Tail(str), class)

CombiningMarks == {"combining_acute"}
WhiteSpace == {"space", "tab"}
LowerAlnum == {"a", "b", "e", "3"}
Alphabet == LowerAlnum \cup WhiteSpace \cup CombiningMarks \cup {"A", "B", "E", "e_acute", "E_acute", "colon"}

RECURSIVE CollapseWhiteSpace(_)
(* replace(/\s+/g, ' '): every run of white space becomes one space. *)
CollapseWhiteSpace(str) ==
  IF Len(str) = 0 THEN <<>>
  ELSE IF str[1] \in WhiteSpace
  THEN IF Len(str) > 1 /\ str[2] \in WhiteSpace
       THEN CollapseWhiteSpace(Tail(str))
       ELSE <<"space">> \o CollapseWhiteSpace(Tail(str))
  ELSE <<str[1]>> \o CollapseWhiteSpace(Tail(str))

RECURSIVE Trim(_)
(* String.prototype.trim *)
Trim(str) ==
  IF Len(str) = 0 THEN <<>>
  ELSE IF str[1] \in WhiteSpace THEN Trim(Tail(str))
  ELSE IF str[Len(str)] \in WhiteSpace THEN Trim(SubSeq(str, 1, Len(str) - 1))
  ELSE str

(* normalize without the decomposition of the precomposed letters. *)
normalize_noNFD(str) ==
  Trim(CollapseWhiteSpace(
    Remove(Remove(ToLowerCase(str), CombiningMarks),
           Alphabet \ (LowerAlnum \cup WhiteSpace))))

normalize(str) ==
  Trim(CollapseWhiteSpace(
    Remove(Remove(NormalizeNFD(ToLowerCase(str)), CombiningMarks),
           Alphabet \ (LowerAlnum \cup WhiteSpace))))

Min3(a, b, c) == IF a <= b /\ a <= c THEN a ELSE IF b <= c THEN b ELSE c

RECURSIVE levenshtein(_, _)
(* dp[m][n] of the code's table, by its recurrence. *)
levenshtein(s1, s2) ==
  LET m == Len(s1)
      n == Len(s2)
  IN IF m = 0 THEN n
     ELSE IF n = 0 THEN m
     ELSE IF s1[m] = s2[n] THEN levenshtein(SubSeq(s1, 1, m - 1), SubSeq(s2, 1, n - 1))
     ELSE 1 + Min3(levenshtein(SubSeq(s1, 1, m - 1), s2),
                   levenshtein(s1, SubSeq(s2, 1, n - 1)),
                   levenshtein(SubSeq(s1, 1, m - 1), SubSeq(s2, 1, n - 1)))

(* secondsToHours cutting the tenths off instead of rounding them. *)
secondsToHours_truncate(seconds) ==
  IF seconds = 0 THEN 0 ELSE seconds \div 360

(* Hours are kept in tenths: Math.round((seconds / 3600) * 10) / 10 is
   floor(seconds / 360 + 1/2) tenths. *)
secondsToHours(seconds) ==
  IF seconds = 0 THEN 0 ELSE (2 * seconds + 360) \div 720

mapToResult(game) ==
  [id |-> game.game_id,
   name |-> game.game_name,
   imageUrl |-> IF game.game_image # "" THEN HLTB_BASE_URL \o "/games/" \o game.game_image ELSE "",
   mainStoryHours |-> secondsToHours(game.comp_main),
   mainPlusExtrasHours |-> secondsToHours(game.comp_plus),
   completionistHours |-> secondsToHours(game.comp_100)]

(* data.find(g => normalize(g.game_name) === normalizedSearchName): the index
   of the first exact match, 0 when there is none. *)
FindExact(data, normalizedSearchName) ==
  LET hits == {i \in 1..Len(data) : normalize(data[i].game_name) = normalizedSearchName}
  IN IF hits = {} THEN 0 ELSE CHOOSE i \in hits : \A j \in hits : i <= j

(* The step of the reduce without the comparison of the counters. *)
Closer_noTieBreak(best, current, normalizedSearchName) ==
  IF levenshtein(normalize(current.game_name), normalizedSearchName)
       < levenshtein(normalize(best.game_name), normalizedSearchName)
  THEN current ELSE best

(* One step of the reduce: the better of best and current. *)
Closer(best, current, normalizedSearchName) ==
  LET bestDist == levenshtein(normalize(best.game_name), normalizedSearchName)
      currentDist == levenshtein(normalize(current.game_name), normalizedSearchName)
  IN IF currentDist = bestDist
     THEN IF current.comp_all_count > best.comp_all_count THEN current ELSE best
     ELSE IF currentDist < bestDist THEN current ELSE best

RECURSIVE Reduce(_, _, _)
(* data.reduce(..., best) over the elements that are left. *)
Reduce(data, best, normalizedSearchName) ==
  IF Len(data) = 0 THEN best
  ELSE Reduce(Tail(data), Closer(best, data[1], normalizedSearchName), normalizedSearchName)

(* searchGame taking the first candidate of the response. *)
bestMatch_first(data, gameName) == data[1]

(* The candidate searchGame selects from a non-empty data list. *)
bestMatch(data, gameName) ==
  LET normalizedSearchName == normalize(gameName)
      exact == FindExact(data, normalizedSearchName)
  IN IF exact # 0 THEN data[exact] ELSE Reduce(data, data[1], normalizedSearchName)

(* The path discoverSearchUrl takes from a script: the first POST fetch call
   to /api/... decides. *)
FirstPost(script) ==
  LET posts == {i \in 1..Len(script) : script[i].post}
  IN IF posts = {} THEN 0 ELSE CHOOSE i \in posts : \A j \in posts : i <= j

discovered(script) ==
  LET first == FirstPost(script)
  IN IF first # 0 /\ script[first].basePath # "find"
     THEN "/api/" \o script[first].basePath
     ELSE DefaultSearchUrl

(* The base paths of the POST fetch calls of a script that are not the
   'find' endpoint. *)
UsablePaths(script) ==
  {script[i].basePath : i \in {j \in 1..Len(script) : script[j].post /\ script[j].basePath # "find"}}

(* The responses of the completion-time source. *)
InitResponses == {[kind |-> "reject", token |-> None], [kind |-> "ok", token |-> None],
                  [kind |-> "ok", token |-> Some("hltb1")], [kind |-> "ok", token |-> Some("hltb2")]}
HomeResponses == {"reject", "noScript", "script"}
FetchCalls == [basePath : {"find", "search", "seek"}, post : BOOLEAN]
Scripts == UNION {[1..n -> FetchCalls] : n \in 0..MaxFetches}
ScriptResponses == {[kind |-> "reject", script |-> <<>>]} \cup [kind : {"ok"}, script : Scripts]

GameName(id) == IF id = 1 THEN <<"a", "b">> ELSE <<"a", "e">>
(* The names searchGame is called with: the names of the games, and a name
   with capitals, a combining mark, punctuation and white space. *)
SpacedName == <<"tab", "A", "colon", "space", "space", "E", "combining_acute", "space">>
QueryNames == {GameName(1), GameName(2), SpacedName}
CandidateNames == {<<"A", "colon", "b">>, <<"a", "e_acute">>, <<"b">>}
(* The candidates of a response: the names, one of them with two counters,
   and one name with each triple of durations, in seconds. *)
DurationSamples == {<<0, 0, 0>>, <<1800, 179, 180>>, <<0 - 3600, 3600, 7200>>}
(* Durations of 40 and of 10 hours, in the answers to the modal. *)
ModalDurationSamples == {<<144000, 3600, 7200>>, <<36000, 3600, 7200>>}
CountSamples(name) == IF name = <<"b">> THEN {1, 2} ELSE {1}
NamedCandidates ==
  UNION {[game_name : {name}, game_image : {"cover.jpg"}, comp_main : {180000},
          comp_plus : {3600}, comp_100 : {7200}, comp_all_count : CountSamples(name)] :
           name \in CandidateNames \cup {<<"a", "tab", "E_acute">>}}
Candidates ==
  NamedCandidates
  \cup {[game_name |-> <<"b">>, game_image |-> "cover.jpg", comp_main |-> d[1],
          comp_plus |-> d[2], comp_100 |-> d[3], comp_all_count |-> 1] : d \in DurationSamples}
CandidateList(l) ==
  [i \in 1..Len(l) |->
     [game_id |-> i, game_name |-> l[i].game_name, game_image |-> l[i].game_image,
      comp_main |-> l[i].comp_main,
      comp_plus |-> l[i].comp_plus, comp_100 |-> l[i].comp_100,
      comp_all_count |-> l[i].comp_all_count]]
(* The lists of a response: every candidate alone, and the lists of the
   named candidates up to the longest length. *)
CandidateLists ==
  {CandidateList(l) :
     l \in {<<>>} \cup {<<g>> : g \in Candidates}
           \cup UNION {[1..n -> NamedCandidates] : n \in 2..MaxCandidates}}
SearchResponses ==
  {[kind |-> "reject", data |-> <<>>], [kind |-> "badJson", data |-> <<>>]}
  \cup [kind : {"ok"}, data : CandidateLists]

(* The responses a call of the modal and an overlapping call are answered
   with: samples of them. *)
InitResponsesTo(c) ==
  IF c = "env" THEN InitResponses
  ELSE IF c \in OverlapCallers
  THEN {r \in InitResponses : r.kind = "reject" \/ r.token = Some("hltb1")}
  ELSE {r \in InitResponses : r.token # Some("hltb2")}
ScriptResponsesTo(c) ==
  IF c = "env" THEN ScriptResponses
  ELSE IF c \in OverlapCallers
  THEN {[kind |-> "ok", script |-> <<>>],
        [kind |-> "ok", script |-> <<[basePath |-> "seek", post |-> TRUE]>>]}
  ELSE {[kind |-> "reject", script |-> <<>>], [kind |-> "ok", script |-> <<>>],
        [kind |-> "ok", script |-> <<[basePath |-> "seek", post |-> TRUE]>>]}
SearchResponsesTo(c) ==
  IF c = "env" THEN SearchResponses
  ELSE IF c \in OverlapCallers
  THEN {[kind |-> "reject", data |-> <<>>], [kind |-> "ok", data |-> <<>>]}
  ELSE {[kind |-> "reject", data |-> <<>>], [kind |-> "badJson", data |-> <<>>],
        [kind |-> "ok", data |-> <<>>]}
       \cup {[kind |-> "ok", data |-> CandidateList(<<g>>)] :
               g \in {h \in Candidates : h.game_name = <<"b">> /\ h.comp_all_count = 1}}
       \cup {[kind |-> "ok", data |-> CandidateList(<<
                 [game_name |-> <<"b">>, game_image |-> "cover.jpg", comp_main |-> d[1],
                  comp_plus |-> d[2], comp_100 |-> d[3], comp_all_count |-> 1]>>)] :
               d \in ModalDurationSamples}

(* A call of searchGame: where it stands, its argument, the requests it sent,
   the kinds of the responses it got, the candidate list of the search
   response and its outcome; and, as history, whether the caller's call
   before it ended on a network error of the init request or of the search
   POST. *)
(* A call of searchGame. History: init is how its init request ended,
   urlAtStart the search path when it started, usable the usable paths of
   the script it fetched, and afterNetworkError, afterInitFailure,
   afterReady and afterCaught tell how the caller's previous call ended. *)
HltbIdle ==
  [pc |-> "idle", gameName |-> <<>>, sent |-> <<>>, recv |-> <<>>, data |-> <<>>,
   out |-> Running, init |-> "none", urlAtStart |-> DefaultSearchUrl, usable |-> {},
   afterNetworkError |-> FALSE, afterInitFailure |-> FALSE, afterReady |-> FALSE,
   afterCaught |-> FALSE]

(* The init request of the call was rejected or answered without a token. *)
InitFailed(call) == call.init \in {"reject", "noToken"}

(* The call got past ensureInitialized, sent its search POST, and the body
   of searchGame ended without an exception. *)
ReadyAndCompleted(call) ==
  /\ call.pc = "done"
  /\ Len(call.sent) > 0 /\ call.sent[Len(call.sent)].kind = "search"
  /\ call.recv[Len(call.recv)] = "ok"

(* The call ended in the catch block of searchGame: its search POST was
   rejected or answered with a body that cannot be read. *)
Caught(call) ==
  /\ call.pc = "done"
  /\ Len(call.sent) > 0 /\ call.sent[Len(call.sent)].kind = "search"
  /\ call.recv[Len(call.recv)] \in {"reject", "badJson"}

(* The call ended on a rejected init request or a rejected search POST. *)
NetworkFailed(call) ==
  /\ call.pc = "done"
  /\ Len(call.recv) > 0 /\ call.recv[Len(call.recv)] = "reject"
  /\ call.sent[Len(call.sent)].kind \in {"init", "search"}

Hltb_send(call, pc, req) == [call EXCEPT !.pc = pc, !.sent = Append(call.sent, req)]

(* The search POST, to the path and with the token the instance holds. *)
Hltb_sendSearch(call, url, token) ==
  Hltb_send(call, "awaitSearch", [kind |-> "search", url |-> url, token |-> token])

(* ensureInitialized from the point where a token is held: discovery runs
   while the path is the default one, and then searchGame posts. *)
Hltb_afterToken(call, token) ==
  IF searchUrl = DefaultSearchUrl
  THEN Hltb_send(call, "awaitHome", [kind |-> "home", url |-> "", token |-> None])
  ELSE Hltb_sendSearch(call, searchUrl, token)

(* searchGame, up to its first request. *)
Hltb_start(gameName) ==
  LET call == [HltbIdle EXCEPT !.gameName = gameName]
  IN IF authToken = None
     THEN Hltb_send(call, "awaitInit", [kind |-> "init", url |-> "", token |-> None])
     ELSE Hltb_afterToken(call, authToken)

(* searchGame is called. *)
Hltb_searchGame(c, gameName) ==
  /\ hltbCalls[c].pc \in {"idle", "done"}
  /\ hltbCalls' = [hltbCalls EXCEPT ![c] =
       [Hltb_start(gameName) EXCEPT !.afterNetworkError = NetworkFailed(hltbCalls[c]),
                                    !.afterInitFailure = InitFailed(hltbCalls[c]),
                                    !.afterReady = ReadyAndCompleted(hltbCalls[c]),
                                    !.afterCaught = Caught(hltbCalls[c]),
                                    !.urlAtStart = searchUrl]]
  /\ UNCHANGED <<authToken, searchUrl>>

(* searchGame without its try/catch. *)
Hltb_catch_rethrow(out) == out

(* The try/catch around the body of searchGame: an exception becomes null. *)
Hltb_catch(out) == IF out.kind = "throw" THEN Return(None) ELSE out

(* searchGame ends with the outcome of its body. *)
Hltb_end(call, out) == [call EXCEPT !.pc = "done", !.out = Hltb_catch(out)]

(* fetchAuthToken returning a placeholder token instead of null. *)
fetchAuthToken_placeholder(resp) ==
  Return(IF resp.kind = "reject" \/ resp.token = None THEN Some("guest") ELSE resp.token)

(* fetchAuthToken: the token of the response, null when the request fails or
   the response has none. *)
fetchAuthToken(resp) ==
  LET body == IF resp.kind = "reject" THEN Throw("request failed") ELSE Return(resp.token)
  IN IF body.kind = "throw" THEN Return(None) ELSE body

(* The init endpoint answers: ensureInitialized stores what fetchAuthToken
   returns, and gives up without a token. *)
Hltb_initResponse(c) ==
  /\ hltbCalls[c].pc = "awaitInit"
  /\ \E resp \in InitResponsesTo(c) :
       LET call == [hltbCalls[c] EXCEPT
                      !.recv = Append(@, resp.kind),
                      !.init = IF resp.kind = "reject" THEN "reject"
                               ELSE IF resp.token = None THEN "noToken" ELSE "token"]
           token == fetchAuthToken(resp)
       IN /\ authToken' = IF token.kind = "throw" THEN None ELSE token.list
          /\ hltbCalls' = [hltbCalls EXCEPT ![c] =
               IF token.kind = "throw" THEN Hltb_end(call, token)
               ELSE IF token.list = None THEN Hltb_end(call, Return(None))
               ELSE Hltb_afterToken(call, token.list)]
  /\ UNCHANGED searchUrl

(* discoverSearchUrl after the homepage: the default path when the request
   failed or the page names no script; an empty result stands for the script
   request it goes on to make. *)
Hltb_afterHome(resp) ==
  LET body == IF resp = "reject" THEN Throw("request failed")
              ELSE IF resp = "noScript" THEN Return(Some(DefaultSearchUrl))
              ELSE Return(None)
  IN IF body.kind = "throw" THEN Return(Some(DefaultSearchUrl)) ELSE body

(* The homepage answers. *)
Hltb_homeResponse(c) ==
  /\ hltbCalls[c].pc = "awaitHome"
  /\ \E resp \in HomeResponses :
       LET call == [hltbCalls[c] EXCEPT !.recv = Append(@, resp)]
           url == Hltb_afterHome(resp)
       IN IF url.list = None
          THEN /\ hltbCalls' = [hltbCalls EXCEPT ![c] =
                    Hltb_send(call, "awaitScript", [kind |-> "script", url |-> "", token |-> None])]
               /\ UNCHANGED searchUrl
          ELSE /\ searchUrl' = url.list[1]
               /\ hltbCalls' = [hltbCalls EXCEPT ![c] =
                    Hltb_sendSearch(call, url.list[1], authToken)]
  /\ UNCHANGED authToken

(* discoverSearchUrl letting a failed script request through as the path of
   the 'find' endpoint. *)
Hltb_afterScript_find(resp) ==
  IF resp.kind = "reject" THEN "/api/find" ELSE discovered(resp.script)

(* discoverSearchUrl after the script: the discovered path, the default one
   when the request failed. *)
Hltb_afterScript(resp) ==
  LET body == IF resp.kind = "reject" THEN Throw("request failed")
              ELSE Return(discovered(resp.script))
  IN IF body.kind = "throw" THEN DefaultSearchUrl ELSE body.list

(* The script answers: ensureInitialized stores the path, searchGame posts. *)
Hltb_scriptResponse(c) ==
  /\ hltbCalls[c].pc = "awaitScript"
  /\ \E resp \in ScriptResponsesTo(c) :
       LET call == [hltbCalls[c] EXCEPT !.recv = Append(@, resp.kind),
                                        !.usable = UsablePaths(resp.script)]
           url == Hltb_afterScript(resp)
       IN /\ searchUrl' = url
          /\ hltbCalls' = [hltbCalls EXCEPT ![c] = Hltb_sendSearch(call, url, authToken)]
  /\ UNCHANGED authToken

(* The body of searchGame from the search response on: a failed request and
   a response that cannot be read throw. *)
Hltb_searchBody(gameName, resp) ==
  IF resp.kind = "reject" THEN Throw("request failed")
  ELSE IF resp.kind = "badJson" THEN Throw("TypeError")
  ELSE IF Len(resp.data) = 0 THEN Return(None)
  ELSE Return(Some(mapToResult(bestMatch(resp.data, gameName))))

(* The catch block of searchGame leaving the token in place. *)
Hltb_catchToken_keep(body) == authToken

(* this.authToken = null in the catch block of searchGame. *)
Hltb_catchToken(body) == IF body.kind = "throw" THEN None ELSE authToken

(* The search endpoint answers; the catch block clears the token. *)
Hltb_searchResponse(c) ==
  /\ hltbCalls[c].pc = "awaitSearch"
  /\ \E resp \in SearchResponsesTo(c) :
       LET call == [hltbCalls[c] EXCEPT !.recv = Append(@, resp.kind), !.data = resp.data]
           body == Hltb_searchBody(call.gameName, resp)
       IN /\ hltbCalls' = [hltbCalls EXCEPT ![c] = Hltb_end(call, body)]
          /\ authToken' = Hltb_catchToken(body)
  /\ UNCHANGED searchUrl

HltbInit ==
  /\ authToken = None
  /\ searchUrl = DefaultSearchUrl
  /\ hltbCalls = [c \in HltbCallers |-> HltbIdle]

NextHltb ==
  \/ (\E gameName \in QueryNames : Hltb_searchGame("env", gameName)) /\ UNCHANGED <<sgdbVars, igdbVars, modalVars, noteVars>>
  \/ Hltb_initResponse("env") /\ UNCHANGED <<sgdbVars, igdbVars, modalVars, noteVars>>
  \/ Hltb_homeResponse("env") /\ UNCHANGED <<sgdbVars, igdbVars, modalVars, noteVars>>
  \/ Hltb_scriptResponse("env") /\ UNCHANGED <<sgdbVars, igdbVars, modalVars, noteVars>>
  \/ Hltb_searchResponse("env") /\ UNCHANGED <<sgdbVars, igdbVars, modalVars, noteVars>>

(* Two callers of one completion-time client, each starting a call
   whether or not the other's call has ended. *)
NextOverlap ==
  \/ \E c \in OverlapCallers :
       Hltb_searchGame(c, GameName(1)) /\ UNCHANGED <<sgdbVars, igdbVars, modalVars, noteVars>>
  \/ \E c \in OverlapCallers :
       Hltb_initResponse(c) /\ UNCHANGED <<sgdbVars, igdbVars, modalVars, noteVars>>
  \/ \E c \in OverlapCallers :
       Hltb_homeResponse(c) /\ UNCHANGED <<sgdbVars, igdbVars, modalVars, noteVars>>
  \/ \E c \in OverlapCallers :
       Hltb_scriptResponse(c) /\ UNCHANGED <<sgdbVars, igdbVars, modalVars, noteVars>>
  \/ \E c \in OverlapCallers :
       Hltb_searchResponse(c) /\ UNCHANGED <<sgdbVars, igdbVars, modalVars, noteVars>>

(* One caller using the completion-time client and the artwork client in
   turn: it takes up a new call when the last one has ended, and drops the
   result of the last call of the other client. *)
Clients_searchGame ==
  /\ sgdbCalls["env"].pc \in {"idle", "done"}
  /\ \E gameName \in QueryNames : Hltb_searchGame("env", gameName)
  /\ sgdbCalls' = [sgdbCalls EXCEPT !["env"] = SgdbIdle]
  /\ UNCHANGED <<apiKey, igdbVars, modalVars, noteVars>>

Clients_artwork ==
  /\ hltbCalls["env"].pc \in {"idle", "done"}
  /\ Sgdb_call("env")
  /\ hltbCalls' = [hltbCalls EXCEPT !["env"] = HltbIdle]
  /\ UNCHANGED <<authToken, searchUrl, igdbVars, modalVars, noteVars>>

NextClients ==
  \/ Clients_searchGame
  \/ Clients_artwork
  \/ Hltb_initResponse("env") /\ UNCHANGED <<sgdbVars, igdbVars, modalVars, noteVars>>
  \/ Hltb_homeResponse("env") /\ UNCHANGED <<sgdbVars, igdbVars, modalVars, noteVars>>
  \/ Hltb_scriptResponse("env") /\ UNCHANGED <<sgdbVars, igdbVars, modalVars, noteVars>>
  \/ Hltb_searchResponse("env") /\ UNCHANGED <<sgdbVars, igdbVars, modalVars, noteVars>>
  \/ Sgdb_respond("env") /\ UNCHANGED <<igdbVars, hltbVars, modalVars, noteVars>>

(***************************************************************************)
(* AddGameModal                                                            *)
(***************************************************************************)
FailureNotice == "Failed to fetch game data. Please try again."
SelectNotice == "Please select a game first"

(* IgdbClient.getCoverUrl *)
getCoverUrl(imageId, size) ==
  "https://images.igdb.com/igdb/image/upload/t_" \o size \o "/" \o imageId \o ".jpg"

(* Math.round of a value held in tenths. *)
RoundTenths(t) == (t + 5) \div 10

(* The pairs of a rating in 1..100 and of hours in 1..30000 tenths for
   which 100 * rating / hltbHours is exactly k + 1/2 and the double
   (rating / hltbHours) * 100 comes out just below it, so that Math.round
   gives k; for every other pair in that range the double rounds as the
   exact quotient does. *)
RoundsBelowHalf ==
  {<<23, 400>>, <<29, 2000>>, <<33, 176>>, <<41, 400>>, <<46, 800>>, <<51, 400>>,
   <<55, 176>>, <<57, 2000>>, <<58, 4000>>, <<66, 352>>, <<69, 1200>>, <<81, 432>>,
   <<82, 800>>, <<87, 400>>, <<87, 6000>>, <<92, 1600>>, <<97, 400>>, <<99, 176>>}

(* calculateEfficiency rounding to one decimal place instead of two. *)
calculateEfficiency_oneDecimal(rating, hltbHours) ==
  IF /\ rating # None /\ rating[1] # 0
     /\ hltbHours # None /\ hltbHours[1] # 0
     /\ hltbHours[1] > 0
  THEN Some(10 * ((200 * rating[1] + hltbHours[1]) \div (2 * hltbHours[1])))
  ELSE None

(* calculateEfficiency: rating a whole number, hltbHours in tenths of an
   hour, the result in hundredths: Math.round((rating / hltbHours) * 100)
   is floor(1000 * rating / tenths + 1/2), one less where the double falls
   below the half. *)
calculateEfficiency(rating, hltbHours) ==
  IF /\ rating # None /\ rating[1] # 0
     /\ hltbHours # None /\ hltbHours[1] # 0
     /\ hltbHours[1] > 0
  THEN LET exact == (2000 * rating[1] + hltbHours[1]) \div (2 * hltbHours[1])
       IN Some(IF <<rating[1], hltbHours[1]>> \in RoundsBelowHalf THEN exact - 1 ELSE exact)
  ELSE None

(* The record handleSubmit builds; the fields copied from the dropdowns and
   from the description, genres and release date are left out. *)
GameDataOf(gameDetails, hltbData, coverUrl) ==
  LET rating == IF gameDetails.aggregated_rating # None /\ gameDetails.aggregated_rating[1] # 0
                THEN Some(RoundTenths(gameDetails.aggregated_rating[1]))
                ELSE None
      hltbHours == IF hltbData # None /\ hltbData[1].mainStoryHours # 0
                   THEN Some(hltbData[1].mainStoryHours)
                   ELSE None
  IN [title |-> GameName(gameDetails.id),
      rating |-> rating,
      hltbHours |-> hltbHours,
      efficiency |-> calculateEfficiency(rating, hltbHours),
      coverUrl |-> coverUrl,
      igdbId |-> gameDetails.id]

(* The run of handleSubmit: where it stands, the details it fetched, the
   outcomes of fetchHltbData and fetchCoverUrl and the local coverUrl of
   fetchCoverUrl; and, as history, how each of the three lookups ended:
   "found", "none" (the source had nothing) or "failed", the grid that
   getBestGrid returned, and the id passed to getGameById. *)
NoSubmission ==
  [pc |-> "idle", gameDetails |-> None, hltbData |-> Running, cover |-> Running,
   coverUrl |-> None, details |-> "pending", hltb |-> "pending", artwork |-> "pending",
   grid |-> None, id |-> 0]

(* How a call of searchGame ended. *)
HltbEnding(call) ==
  IF call.out.kind = "return" /\ call.out.list # None THEN "found"
  ELSE IF call.out.kind = "throw"
          \/ call.sent[Len(call.sent)].kind = "init"
          \/ call.recv[Len(call.recv)] \in {"reject", "badJson"}
  THEN "failed"
  ELSE "none"

(* How a call of the artwork client ended. *)
SgdbEnding(call) ==
  IF call.out.kind = "return" /\ call.out.list # None /\ call.op = "getBestGrid" THEN "found"
  ELSE IF call.out.kind = "throw"
          \/ (Len(call.recv) > 0 /\ call.recv[Len(call.recv)].kind \in {"reject", "error"})
  THEN "failed"
  ELSE "none"

(* The runs of performSearch the model follows at a time, each with the
   IgdbClient call of the same name; a run holds its query, its number in
   the order of the searches sent and, as history, how it ended. *)
NoSearch == [pc |-> "idle", query |-> "", seq |-> 0, ended |-> ""]
Queries == {"a", "ab", "abc"}
SearchFailedNotice == "Failed to search games. Check your Twitch API credentials."

ModalInit ==
  /\ selectedGame = None
  /\ submitButton = [disabled |-> TRUE, text |-> "Add Game"]
  /\ loadingEl = "none"
  /\ notices = <<>>
  /\ onSubmitCalls = <<>>
  /\ closed = FALSE
  /\ submission = NoSubmission
  /\ clicks = 0
  /\ searchResults = [games |-> <<>>, seq |-> 0]
  /\ resultsContainer = <<>>
  /\ searching = [slot \in SearchSlots |-> NoSearch]
  /\ issued = <<>>

(* The user clicks a search result. *)
Modal_selectGame(game) ==
  /\ ~closed
  /\ selectedGame' = Some(game)
  /\ submitButton' = [submitButton EXCEPT !.disabled = FALSE]
  /\ resultsContainer' = <<>>
  /\ UNCHANGED <<loadingEl, notices, onSubmitCalls, closed, submission, clicks, searchVars>>
  /\ UNCHANGED <<sgdbVars, igdbVars, hltbVars>>

(* handleSubmit starting the completion-time lookup together with
   getGameById. *)
Modal_handleSubmit_eager ==
  /\ ~closed
  /\ ~submitButton.disabled
  /\ submission.pc \in {"idle", "failed"}
  /\ clicks < MaxSubmits
  /\ clicks' = clicks + 1
  /\ IF selectedGame = None
     THEN /\ notices' = Append(notices, SelectNotice)
          /\ UNCHANGED <<submitButton, loadingEl, submission, igdbVars, hltbVars>>
     ELSE /\ loadingEl' = "block"
          /\ submitButton' = [disabled |-> TRUE, text |-> "Adding..."]
          /\ submission' = [NoSubmission EXCEPT !.pc = "details", !.id = selectedGame[1].id]
          /\ Igdb_start("submit", "getGameById", None)
          /\ Hltb_searchGame("submit", GameName(selectedGame[1].id))
          /\ UNCHANGED notices
  /\ UNCHANGED <<selectedGame, onSubmitCalls, closed, sgdbVars>>
  /\ UNCHANGED <<searchVars, resultsContainer>>

(* The user clicks the submit button: handleSubmit up to its first await.
   The model follows one run of handleSubmit at a time. *)
Modal_handleSubmit ==
  /\ ~closed
  /\ ~submitButton.disabled
  /\ submission.pc \in {"idle", "failed"}
  /\ clicks < MaxSubmits
  /\ clicks' = clicks + 1
  /\ IF selectedGame = None
     THEN /\ notices' = Append(notices, SelectNotice)
          /\ UNCHANGED <<submitButton, loadingEl, submission, igdbVars>>
     ELSE /\ loadingEl' = "block"
          /\ submitButton' = [disabled |-> TRUE, text |-> "Adding..."]
          /\ submission' = [NoSubmission EXCEPT !.pc = "details", !.id = selectedGame[1].id]
          /\ Igdb_start("submit", "getGameById", None)
          /\ UNCHANGED notices
  /\ UNCHANGED <<selectedGame, onSubmitCalls, closed, sgdbVars, hltbVars>>
  /\ UNCHANGED <<searchVars, resultsContainer>>

(* The catch block of handleSubmit with the button left disabled. *)
Modal_catch_keepDisabled(button) ==
  [notice |-> FailureNotice, loadingEl |-> "none", submitButton |-> button]

(* The catch block of handleSubmit: what it shows. *)
Modal_catch(button) ==
  [notice |-> FailureNotice, loadingEl |-> "none",
   submitButton |-> [disabled |-> FALSE, text |-> "Add Game"]]

(* handleSubmit ends in its catch block. *)
Modal_fail(sub) ==
  LET shown == Modal_catch(submitButton)
  IN /\ notices' = Append(notices, shown.notice)
     /\ loadingEl' = shown.loadingEl
     /\ submitButton' = shown.submitButton
     /\ submission' = [sub EXCEPT !.pc = "failed"]
     /\ UNCHANGED <<selectedGame, onSubmitCalls, closed, clicks>>

(* fetchCoverUrl: the IGDB cover it starts from. *)
IgdbCoverOf(gameDetails) ==
  IF Truthy(gameDetails.cover)
  THEN Some(getCoverUrl(gameDetails.cover[1], "cover_big"))
  ELSE None

(* getGameById settled: a rejection and a null end in the catch block;
   otherwise fetchHltbData and fetchCoverUrl both run to their first await,
   searchGame with the name of the game selected now. *)
Modal_afterGetGameById ==
  /\ submission.pc = "details"
  /\ igdbCalls["submit"].pc = "done"
  /\ LET out == igdbCalls["submit"].out
     IN IF out.kind = "throw" \/ out.list = None
        THEN /\ Modal_fail([submission EXCEPT
                    !.details = IF out.kind = "throw" THEN "failed" ELSE "none"])
             /\ UNCHANGED <<sgdbVars, hltbVars>>
        ELSE /\ submission' = [submission EXCEPT !.pc = "lookups",
                                                 !.details = "found",
                                                 !.gameDetails = out.list,
                                                 !.coverUrl = IgdbCoverOf(out.list[1])]
             /\ Hltb_searchGame("submit", GameName(selectedGame[1].id))
             /\ sgdbCalls' = [sgdbCalls EXCEPT !["cover"] = Sgdb_start("searchGames", NoOptions)]
             /\ UNCHANGED <<apiKey, selectedGame, submitButton, loadingEl, notices,
                            onSubmitCalls, closed, clicks>>
  /\ igdbCalls' = [igdbCalls EXCEPT !["submit"] = IgdbIdle]
  /\ UNCHANGED <<searchVars, resultsContainer>>
  /\ UNCHANGED <<clientId, clientSecret, accessToken, tokenExpiry, now, igdbLog, igdbHist>>

(* The try/catch of fetchHltbData: an exception becomes null. *)
fetchHltbData(out) == IF out.kind = "throw" THEN Return(None) ELSE out

(* searchGame settled: fetchHltbData returns. *)
Modal_fetchHltbDataEnd ==
  /\ submission.pc = "lookups"
  /\ submission.hltbData.kind = "running"
  /\ hltbCalls["submit"].pc = "done"
  /\ submission' = [submission EXCEPT !.hltbData = fetchHltbData(hltbCalls["submit"].out),
                                      !.hltb = HltbEnding(hltbCalls["submit"])]
  /\ hltbCalls' = [hltbCalls EXCEPT !["submit"] = HltbIdle]
  /\ UNCHANGED <<authToken, searchUrl, sgdbVars, igdbVars>>
  /\ UNCHANGED <<selectedGame, submitButton, loadingEl, notices, onSubmitCalls, closed, clicks>>
  /\ UNCHANGED <<searchVars, resultsContainer>>

(* fetchCoverUrl without its try/catch. *)
fetchCoverUrl_rethrow(out, coverUrl) ==
  IF out.kind = "throw" THEN out ELSE Return(coverUrl)

(* fetchCoverUrl staying pending when the artwork client throws. *)
fetchCoverUrl_pending(out, coverUrl) ==
  IF out.kind = "throw" THEN Running ELSE Return(coverUrl)

(* The end of fetchCoverUrl: an exception of the artwork client is caught,
   and the function returns its local coverUrl. *)
fetchCoverUrl(out, coverUrl) == Return(coverUrl)

(* The local coverUrl with the IGDB cover kept when there is one. *)
PreferGrid_igdbFirst(grid, coverUrl) ==
  IF coverUrl # None THEN coverUrl
  ELSE IF grid # None THEN Some(grid[1].url) ELSE None

(* if (grid) coverUrl = grid.url: the local coverUrl after getBestGrid. *)
PreferGrid(grid, coverUrl) == IF grid # None THEN Some(grid[1].url) ELSE coverUrl

(* A call of the artwork client settled: after searchGames with a game,
   fetchCoverUrl calls getBestGrid; a grid replaces the IGDB cover. *)
Modal_fetchCoverUrlStep ==
  /\ submission.pc = "lookups"
  /\ submission.cover.kind = "running"
  /\ sgdbCalls["cover"].pc = "done"
  /\ LET call == sgdbCalls["cover"]
         out == call.out
     IN IF out.kind = "return" /\ call.op = "searchGames" /\ Len(out.list) > 0
        THEN /\ sgdbCalls' = [sgdbCalls EXCEPT !["cover"] = Sgdb_start("getBestGrid", NoOptions)]
             /\ UNCHANGED submission
        ELSE /\ sgdbCalls' = [sgdbCalls EXCEPT !["cover"] = SgdbIdle]
             /\ IF out.kind = "return" /\ call.op = "getBestGrid"
                THEN submission' = [submission EXCEPT
                       !.coverUrl = PreferGrid(out.list, submission.coverUrl),
                       !.cover = fetchCoverUrl(out, PreferGrid(out.list, submission.coverUrl)),
                       !.artwork = SgdbEnding(call),
                       !.grid = out.list]
                ELSE submission' = [submission EXCEPT
                       !.cover = fetchCoverUrl(out, submission.coverUrl),
                       !.artwork = SgdbEnding(call)]
  /\ UNCHANGED <<apiKey, igdbVars, hltbVars>>
  /\ UNCHANGED <<selectedGame, submitButton, loadingEl, notices, onSubmitCalls, closed, clicks>>
  /\ UNCHANGED <<searchVars, resultsContainer>>

(* Promise.all settled: with both results handleSubmit builds the record,
   hands it to onSubmit and closes the modal; a rejection ends in the catch
   block. *)
Modal_afterLookups ==
  /\ submission.pc = "lookups"
  /\ \/ submission.cover.kind = "throw"
     \/ submission.hltbData.kind = "throw"
     \/ submission.cover.kind = "return" /\ submission.hltbData.kind = "return"
  /\ IF submission.cover.kind = "throw" \/ submission.hltbData.kind = "throw"
     THEN Modal_fail(submission)
     ELSE /\ onSubmitCalls' = Append(onSubmitCalls,
               GameDataOf(submission.gameDetails[1], submission.hltbData.list,
                          submission.cover.list))
          /\ closed' = TRUE
          /\ submission' = [submission EXCEPT !.pc = "submitted"]
          /\ UNCHANGED <<selectedGame, submitButton, loadingEl, notices, clicks>>
  /\ UNCHANGED <<sgdbVars, igdbVars, hltbVars, searchVars, resultsContainer>>

(* The debounced input handler runs performSearch with the text typed: a
   query under two characters empties the rendered results; any other is
   sent to searchGames. *)
Modal_performSearch(slot, query) ==
  /\ ~closed
  /\ searching[slot].pc = "idle"
  /\ Len(issued) < MaxSearches
  /\ IF query = "" \/ Len(query) < 2
     THEN /\ resultsContainer' = <<>>
          /\ UNCHANGED <<searching, issued, igdbVars>>
     ELSE /\ Igdb_start(slot, "searchGames", Some(ModalSearchLimit))
          /\ issued' = Append(issued, query)
          /\ searching' = [searching EXCEPT ![slot] =
               [pc |-> "await", query |-> query, seq |-> Len(issued) + 1, ended |-> ""]]
          /\ UNCHANGED resultsContainer
  /\ UNCHANGED <<searchResults, selectedGame, submitButton, loadingEl, notices, onSubmitCalls,
                 closed, submission, clicks, sgdbVars, hltbVars>>

(* searchGames settled: performSearch stores the games and renders them, or
   shows a notice when the call rejected. *)
Modal_afterSearchGames(slot) ==
  /\ searching[slot].pc = "await"
  /\ igdbCalls[slot].pc = "done"
  /\ IF igdbCalls[slot].out.kind = "throw"
     THEN /\ notices' = Append(notices, SearchFailedNotice)
          /\ UNCHANGED <<searchResults, resultsContainer>>
     ELSE /\ searchResults' = [games |-> igdbCalls[slot].out.list, seq |-> searching[slot].seq]
          /\ resultsContainer' = igdbCalls[slot].out.list
          /\ UNCHANGED notices
  /\ searching' = [searching EXCEPT ![slot] =
       [@ EXCEPT !.pc = "idle",
                 !.ended = IF igdbCalls[slot].out.kind = "throw" THEN "failed" ELSE "ok"]]
  /\ igdbCalls' = [igdbCalls EXCEPT ![slot] = IgdbIdle]
  /\ UNCHANGED <<clientId, clientSecret, accessToken, tokenExpiry, now, igdbLog, igdbHist>>
  /\ UNCHANGED <<issued, selectedGame, submitButton, loadingEl, onSubmitCalls, closed,
                 submission, clicks, sgdbVars, hltbVars>>

NextSearch ==
  \/ \E slot \in SearchSlots, query \in Queries :
       Modal_performSearch(slot, query) /\ UNCHANGED noteVars
  \/ \E slot \in SearchSlots :
       Igdb_tokenResponse(slot) /\ UNCHANGED <<sgdbVars, hltbVars, modalVars, noteVars>>
  \/ \E slot \in SearchSlots :
       Igdb_catalogResponse(slot) /\ UNCHANGED <<sgdbVars, hltbVars, modalVars, noteVars>>
  \/ \E slot \in SearchSlots :
       Modal_afterSearchGames(slot) /\ UNCHANGED noteVars
  \/ \E i \in 1..Len(resultsContainer) :
       Modal_selectGame(resultsContainer[i]) /\ UNCHANGED noteVars

NextModal ==
  \/ \E game \in SelectableGames :
       Modal_selectGame(game) /\ UNCHANGED noteVars
  \/ Modal_handleSubmit /\ UNCHANGED noteVars
  \/ Igdb_tokenResponse("submit") /\ UNCHANGED <<sgdbVars, hltbVars, modalVars, noteVars>>
  \/ Igdb_catalogResponse("submit") /\ UNCHANGED <<sgdbVars, hltbVars, modalVars, noteVars>>
  \/ Modal_afterGetGameById /\ UNCHANGED noteVars
  \/ Hltb_initResponse("submit") /\ UNCHANGED <<sgdbVars, igdbVars, modalVars, noteVars>>
  \/ Hltb_homeResponse("submit") /\ UNCHANGED <<sgdbVars, igdbVars, modalVars, noteVars>>
  \/ Hltb_scriptResponse("submit") /\ UNCHANGED <<sgdbVars, igdbVars, modalVars, noteVars>>
  \/ Hltb_searchResponse("submit") /\ UNCHANGED <<sgdbVars, igdbVars, modalVars, noteVars>>
  \/ Modal_fetchHltbDataEnd /\ UNCHANGED noteVars
  \/ Sgdb_respond("cover") /\ UNCHANGED <<igdbVars, hltbVars, modalVars, noteVars>>
  \/ Modal_fetchCoverUrlStep /\ UNCHANGED noteVars
  \/ Modal_afterLookups /\ UNCHANGED noteVars

(* The steps of a run of handleSubmit that follow from a settled request:
   the responses to its requests, and the continuations of its awaits. *)
SubmitSteps ==
  \/ Igdb_tokenResponse("submit") /\ UNCHANGED <<sgdbVars, hltbVars, modalVars, noteVars>>
  \/ Igdb_catalogResponse("submit") /\ UNCHANGED <<sgdbVars, hltbVars, modalVars, noteVars>>
  \/ Modal_afterGetGameById /\ UNCHANGED noteVars
  \/ Hltb_initResponse("submit") /\ UNCHANGED <<sgdbVars, igdbVars, modalVars, noteVars>>
  \/ Hltb_homeResponse("submit") /\ UNCHANGED <<sgdbVars, igdbVars, modalVars, noteVars>>
  \/ Hltb_scriptResponse("submit") /\ UNCHANGED <<sgdbVars, igdbVars, modalVars, noteVars>>
  \/ Hltb_searchResponse("submit") /\ UNCHANGED <<sgdbVars, igdbVars, modalVars, noteVars>>
  \/ Modal_fetchHltbDataEnd /\ UNCHANGED noteVars
  \/ Sgdb_respond("cover") /\ UNCHANGED <<igdbVars, hltbVars, modalVars, noteVars>>
  \/ Modal_fetchCoverUrlStep /\ UNCHANGED noteVars
  \/ Modal_afterLookups /\ UNCHANGED noteVars

(* The modal with a user who picks a result between the runs of
   handleSubmit; the clicks during a run are those of NextModal. *)
NextSubmit ==
  \/ \E game \in SelectableGames :
       /\ submission.pc \notin {"details", "lookups"}
       /\ Modal_selectGame(game) /\ UNCHANGED noteVars
  \/ Modal_handleSubmit /\ UNCHANGED noteVars
  \/ SubmitSteps

(***************************************************************************)
(* GameBacklogPlugin.createGameNote                                        *)
(***************************************************************************)
NoteCallers == {"first", "second"}

(* The titles notes are created for. *)
Titles == {<<"a", "b">>, <<"a", "colon", "b">>, <<"a", "space", "tab", "e">>}

InvalidFileNameChars ==
  {"lt", "gt", "colon", "quote", "slash", "backslash", "pipe", "question", "star"}

(* generateFileName: the title without the characters a file name cannot
   hold, its white space normalized, between the prefix and ".md". *)
generateFileName(title) ==
  <<"gamepad", "space">>
  \o Trim(CollapseWhiteSpace(Remove(title, InvalidFileNameChars)))
  \o <<"dot", "m", "d">>

VaultPaths == {generateFileName(title) : title \in Titles}

(* What the vault holds at a path: nothing, a file (TFile) with its content,
   or a folder. *)
Nothing == [kind |-> "none", content |-> <<>>]
Folder == [kind |-> "folder", content |-> <<>>]
OldFile == [kind |-> "file", content |-> <<"old">>]

(* generateGameNote: the note's content, which starts with the title. *)
generateGameNote(title) == <<"note">> \o title

ExistsNotice(title) == [text |-> "A note for ... already exists", title |-> title]
AddedNotice(title) == [text |-> "Added ... to your backlog!", title |-> title]
CreateFailedNotice ==
  [text |-> "Failed to create game note. Check console for details.", title |-> <<>>]

NoNote ==
  [pc |-> "idle", title |-> <<>>, fileName |-> <<>>, found |-> FALSE, created |-> FALSE,
   out |-> Running]

(* createGameNote taking the path for free whatever the vault holds. *)
ExistingFile_never(fileName) == FALSE

(* existingFile && existingFile instanceof TFile *)
ExistingFile(fileName) == vault[fileName].kind = "file"

NoteInit ==
  /\ vault \in [VaultPaths -> {Nothing, Folder, OldFile}]
  /\ noteCalls = [c \in NoteCallers |-> NoNote]
  /\ createLog = <<>>
  /\ pluginNotices = <<>>
  /\ opened = <<>>

(* createGameNote up to its first await: with a file at the generated name
   it shows the notice and opens that file; otherwise it calls vault.create. *)
Note_createGameNote(c, title) ==
  LET fileName == generateFileName(title)
      call == [NoNote EXCEPT !.title = title, !.fileName = fileName]
  IN /\ noteCalls[c].pc = "idle"
     /\ IF ExistingFile(fileName)
        THEN /\ pluginNotices' = Append(pluginNotices, ExistsNotice(title))
             /\ opened' = Append(opened, fileName)
             /\ noteCalls' = [noteCalls EXCEPT ![c] =
                  [call EXCEPT !.pc = "openExisting", !.found = TRUE]]
             /\ UNCHANGED createLog
        ELSE /\ createLog' = Append(createLog,
                  [fileName |-> fileName, content |-> generateGameNote(title),
                   occupied |-> vault[fileName].kind])
             /\ noteCalls' = [noteCalls EXCEPT ![c] = [call EXCEPT !.pc = "create"]]
             /\ UNCHANGED <<pluginNotices, opened>>
     /\ UNCHANGED vault

(* vault.create settles: it creates the file when the path is free, and
   rejects when the path is taken or the write fails; createGameNote catches
   the rejection. *)
Note_createSettles(c, written) ==
  LET call == noteCalls[c]
  IN /\ call.pc = "create"
     /\ IF written /\ vault[call.fileName].kind = "none"
        THEN /\ vault' = [vault EXCEPT ![call.fileName] =
                  [kind |-> "file", content |-> generateGameNote(call.title)]]
             /\ pluginNotices' = Append(pluginNotices, AddedNotice(call.title))
             /\ opened' = Append(opened, call.fileName)
             /\ noteCalls' = [noteCalls EXCEPT ![c] =
                  [call EXCEPT !.pc = "openNew", !.created = TRUE]]
        ELSE /\ pluginNotices' = Append(pluginNotices, CreateFailedNotice)
             /\ noteCalls' = [noteCalls EXCEPT ![c] =
                  [call EXCEPT !.pc = "done", !.out = Return(None)]]
             /\ UNCHANGED <<vault, opened>>
     /\ UNCHANGED createLog

(* leaf.openFile settles: a rejection propagates when the existing file was
   being opened, and is caught when the new one was. *)
Note_openSettles(c, shown) ==
  LET call == noteCalls[c]
  IN /\ call.pc \in {"openExisting", "openNew"}
     /\ noteCalls' = [noteCalls EXCEPT ![c] =
          [call EXCEPT !.pc = "done",
                       !.out = IF shown \/ call.pc = "openNew"
                               THEN Return(None) ELSE Throw("openFile failed")]]
     /\ pluginNotices' = IF ~shown /\ call.pc = "openNew"
                         THEN Append(pluginNotices, CreateFailedNotice)
                         ELSE pluginNotices
     /\ UNCHANGED <<vault, createLog, opened>>

NextNotes ==
  \/ \E c \in NoteCallers, title \in Titles :
       Note_createGameNote(c, title) /\ UNCHANGED <<sgdbVars, igdbVars, hltbVars, modalVars>>
  \/ \E c \in NoteCallers, written \in BOOLEAN :
       Note_createSettles(c, written) /\ UNCHANGED <<sgdbVars, igdbVars, hltbVars, modalVars>>
  \/ \E c \in NoteCallers, shown \in BOOLEAN :
       Note_openSettles(c, shown) /\ UNCHANGED <<sgdbVars, igdbVars, hltbVars, modalVars>>

(* The state after construction; a specification of one client starts the
   other clients with their credentials set, and the vault empty. *)
EmptyVault == [path \in VaultPaths |-> Nothing]
Init == SgdbInit /\ IgdbInit /\ HltbInit /\ ModalInit /\ NoteInit
InitSgdb == Init /\ clientId = "id" /\ clientSecret = "secret" /\ vault = EmptyVault
InitIgdb == Init /\ apiKey = "key" /\ vault = EmptyVault
InitHltb ==
  Init /\ apiKey = "key" /\ clientId = "id" /\ clientSecret = "secret" /\ vault = EmptyVault
(* The modal opens only with both Twitch credentials set. *)
InitModal == Init /\ clientId = "id" /\ clientSecret = "secret" /\ vault = EmptyVault
InitNotes == Init /\ apiKey = "key" /\ clientId = "id" /\ clientSecret = "secret"

SpecSgdb == InitSgdb /\ [][NextSgdb]_vars
SpecIgdb == InitIgdb /\ [][NextIgdb]_vars
SpecHltb == InitHltb /\ [][NextHltb]_vars
SpecClients == InitSgdb /\ [][NextClients]_vars
SpecOverlap == InitHltb /\ [][NextOverlap]_vars
SpecModal == InitModal /\ [][NextModal]_vars
SpecSearch == InitModal /\ [][NextSearch]_vars
SpecNotes == InitNotes /\ [][NextNotes]_vars
(* The modal when every request settles and every continuation runs. *)
SpecSubmit == InitModal /\ [][NextSubmit]_vars /\ WF_vars(SubmitSteps)

(***************************************************************************)
(* Claims about createGameNote                                             *)
(***************************************************************************)

(* C26: createGameNote never calls vault.create for a name at which the
   vault holds a file; a run that found a file at its name has not called
   vault.create, has shown the 'already exists' notice and has opened that
   file; and at most one note is created per name, also when createGameNote
   runs twice for the same title. *)
C26_NoCreateOverExistingFile ==
  /\ \A i \in 1..Len(createLog) : createLog[i].occupied # "file"
  /\ \A c \in NoteCallers :
       noteCalls[c].found =>
         /\ ~noteCalls[c].created
         /\ noteCalls[c].pc \in {"openExisting", "done"}
         /\ \E i \in 1..Len(pluginNotices) : pluginNotices[i] = ExistsNotice(noteCalls[c].title)
         /\ \E i \in 1..Len(opened) : opened[i] = noteCalls[c].fileName
         /\ vault[noteCalls[c].fileName].kind = "file"
  /\ \A c, d \in NoteCallers :
       (noteCalls[c].created /\ noteCalls[d].created
          /\ noteCalls[c].fileName = noteCalls[d].fileName) => c = d
  /\ \A path \in VaultPaths :
       vault[path] = OldFile \/ vault[path].kind # "file"
         \/ \E c \in NoteCallers :
              /\ noteCalls[c].created /\ noteCalls[c].fileName = path
              /\ vault[path].content = generateGameNote(noteCalls[c].title)

C26_Witness ==
  /\ noteCalls["first"].created
  /\ noteCalls["first"].title = <<"a", "b">>
  /\ noteCalls["second"].title = <<"a", "b">>
  /\ noteCalls["second"].found
  /\ noteCalls["second"].pc = "done"
  /\ Len(createLog) = 1

(***************************************************************************)
(* Claims about AddGameModal                                               *)
(***************************************************************************)

(* C20: whenever the efficiency handed to onSubmit is not null it is
   rating / hltbHours rounded half up to two decimal places, that is
   round(100 * rating / hours) / 100: with the efficiency in hundredths and
   the hours in tenths, efficiency - 1/2 <= 1000 * rating / hours <
   efficiency + 1/2. *)
C20_EfficiencyRoundedToTwoDecimals ==
  \A i \in 1..Len(onSubmitCalls) :
    onSubmitCalls[i].efficiency # None =>
      LET e == onSubmitCalls[i].efficiency[1]
          r == onSubmitCalls[i].rating[1]
          h == onSubmitCalls[i].hltbHours[1]
      IN /\ (2 * e - 1) * h <= 2000 * r
         /\ 2000 * r < (2 * e + 1) * h

(* The efficiency, in hundredths, handed to onSubmit for the rating and the
   hours (in tenths) is e. *)
EfficiencyIs(data, rating, hours, e) ==
  (data.rating = Some(rating) /\ data.hltbHours = Some(hours)) => data.efficiency = Some(e)

C1_EfficiencyIffRatingAndHours ==
  \A i \in 1..Len(onSubmitCalls) :
    onSubmitCalls[i].efficiency # None <=>
      /\ onSubmitCalls[i].rating # None
      /\ onSubmitCalls[i].hltbHours # None
      /\ onSubmitCalls[i].hltbHours[1] > 0

(* C2: once getGameById has returned a game, handleSubmit never ends in its
   catch block; when it has gone through, onSubmit got one record built from
   the game, in which a completion-time lookup that failed or found nothing
   leaves hltbHours and efficiency null, and an artwork lookup that failed
   or found nothing leaves coverUrl what the game's own cover gives. *)
C2_LookupFailuresOnlyBlankTheirField ==
  /\ submission.details = "found" => submission.pc \in {"lookups", "submitted"}
  /\ submission.pc = "submitted" =>
       /\ Len(onSubmitCalls) = 1
       /\ onSubmitCalls[1].title = GameName(submission.gameDetails[1].id)
       /\ onSubmitCalls[1].igdbId = submission.gameDetails[1].id
       /\ onSubmitCalls[1].rating =
            GameDataOf(submission.gameDetails[1], None, None).rating
       /\ submission.hltb \in {"none", "failed"} =>
            onSubmitCalls[1].hltbHours = None /\ onSubmitCalls[1].efficiency = None
       /\ submission.artwork \in {"none", "failed"} =>
            onSubmitCalls[1].coverUrl = IgdbCoverOf(submission.gameDetails[1])

C2_Witness ==
  /\ submission.pc = "submitted"
  /\ apiKey = ""
  /\ submission.artwork = "failed"
  /\ submission.hltb = "failed"
  /\ searchUrl = "/api/seek"
  /\ onSubmitCalls[1].rating = Some(92)
  /\ onSubmitCalls[1].coverUrl # None

(* C13: the coverUrl of the record handed to onSubmit is the URL of the grid
   that getBestGrid returned when it returned one; otherwise the cover_big
   URL of the game's cover image id when the game has one; otherwise null. *)
C13_CoverUrlResolutionOrder ==
  submission.pc = "submitted" =>
    onSubmitCalls[Len(onSubmitCalls)].coverUrl =
      IF submission.grid # None THEN Some(submission.grid[1].url)
      ELSE IF submission.gameDetails[1].cover # None
      THEN Some("https://images.igdb.com/igdb/image/upload/t_cover_big/"
                \o submission.gameDetails[1].cover[1] \o ".jpg")
      ELSE None

C13_Witness ==
  /\ submission.pc = "submitted"
  /\ submission.grid # None
  /\ submission.gameDetails[1].cover # None
  /\ onSubmitCalls[1].coverUrl = Some(GridUrl(2))

(* Every search sent has resolved, the latest of them with a result. *)
SearchesResolved ==
  /\ \A slot \in SearchSlots : searching[slot].pc = "idle"
  /\ \E slot \in SearchSlots :
       searching[slot].seq = Len(issued) /\ searching[slot].ended = "ok"

(* C17: when a search was sent before an earlier one resolved and both have
   resolved, in either order, the results the modal holds are those of the
   latest search. *)
C17_LatestSearchWins ==
  (Len(issued) >= 2 /\ SearchesResolved) => searchResults.seq = Len(issued)

(* C34: no two operations of one client instance are in flight together:
   at most one token request of the primary client is pending at a time,
   and at most one searchGame call of the completion-time client is
   running at a time, whatever the user types, selects and submits. *)
C34_NoOverlappingOperations ==
  /\ Cardinality({c \in IgdbCallers : igdbCalls[c].pc = "awaitToken"}) <= 1
  /\ Cardinality({c \in HltbCallers : hltbCalls[c].pc \notin {"idle", "done"}}) <= 1

(* C35: while a run of handleSubmit is in flight the submit button is
   disabled, so that no second run starts, whatever results the user
   clicks; and onSubmit is invoked at most once. *)
C35_OneSubmissionInFlight ==
  /\ submission.pc \in {"details", "lookups"} => submitButton.disabled
  /\ Len(onSubmitCalls) <= 1

(* C36: in every run of handleSubmit, the name searchGame is called with
   is the name of the game whose id was passed to getGameById, also when
   the user selects another result while the run is in flight. *)
C36_RecordFromOneGame ==
  hltbCalls["submit"].pc # "idle" => hltbCalls["submit"].gameName = GameName(submission.id)

(* C39: when every request settles, a run of handleSubmit with a game
   selected ends: either onSubmit was invoked and the modal closed, or the
   failure notice was shown, the loading line hidden and the submit button
   enabled again. *)
C39_SubmissionEnds ==
  submission.pc \in {"details", "lookups"} ~>
    \/ submission.pc = "submitted" /\ closed /\ Len(onSubmitCalls) = 1
    \/ /\ submission.pc = "failed"
       /\ Len(notices) > 0 /\ notices[Len(notices)] = FailureNotice
       /\ loadingEl = "none"
       /\ submitButton = [disabled |-> FALSE, text |-> "Add Game"]

C39_Witness ==
  /\ submission.pc = "submitted" /\ closed /\ clicks = 2
  /\ Len(notices) > 0 /\ notices[Len(notices)] = FailureNotice
  /\ submission.artwork = "failed" /\ submission.hltb = "failed"

(* C27: in every run of handleSubmit, a request of the completion-time
   client or of the artwork client has been sent only after getGameById of
   that run has returned a record. *)
C27_LookupsAfterPrimaryRecord ==
  /\ (Len(hltbCalls["submit"].sent) > 0 \/ Len(sgdbCalls["cover"].sent) > 0) =>
       /\ submission.details = "found"
       /\ submission.gameDetails # None
       /\ igdbCalls["submit"].pc = "idle"
  /\ submission.pc \in {"idle", "details", "failed"} =>
       hltbCalls["submit"].sent = <<>> /\ sgdbCalls["cover"].sent = <<>>

C27_Witness ==
  /\ submission.pc = "lookups"
  /\ submission.gameDetails # None
  /\ Len(hltbCalls["submit"].sent) = 1
  /\ hltbCalls["submit"].sent[1].kind = "init"
  /\ Len(sgdbCalls["cover"].sent) = 1
  /\ clicks = 2

(* C3: when getGameById returned null or rejected, handleSubmit has ended
   in its catch block: onSubmit was not called, neither searchGame nor the
   artwork client was called, the modal is open, the failure notice is the
   last notice, the loading line is hidden and the submit button is enabled
   again. *)
C3_PrimaryFailureStopsSubmission ==
  submission.details \in {"none", "failed"} =>
    /\ submission.pc = "failed"
    /\ onSubmitCalls = <<>>
    /\ ~closed
    /\ hltbCalls["submit"] = HltbIdle /\ authToken = None /\ searchUrl = DefaultSearchUrl
    /\ sgdbCalls["cover"] = SgdbIdle
    /\ Len(notices) > 0 /\ notices[Len(notices)] = FailureNotice
    /\ loadingEl = "none"
    /\ submitButton = [disabled |-> FALSE, text |-> "Add Game"]

C3_Witness ==
  /\ submission.details = "none"
  /\ submission.pc = "failed"
  /\ Len(notices) = 2
  /\ accessToken = Some("tok1")

(***************************************************************************)
(* Claims about HltbClient                                                 *)
(***************************************************************************)
HltbResultFields ==
  {"id", "name", "imageUrl", "mainStoryHours", "mainPlusExtrasHours", "completionistHours"}

(* The call ended in null or in a result with all its fields. *)
ResolvedFullOrNull(call) ==
  /\ call.out.kind = "return"
  /\ call.out.list # None => DOMAIN call.out.list[1] = HltbResultFields

(* C4: searchGame never throws or rejects: whatever the init, homepage,
   script and search requests answer, a call that ended resolved to a full
   result or to null. *)
C4_SearchGameNeverThrows ==
  \A c \in HltbCallers :
    /\ hltbCalls[c].out.kind # "throw"
    /\ hltbCalls[c].pc = "done" => ResolvedFullOrNull(hltbCalls[c])

C4_Witness ==
  /\ hltbCalls["env"].pc = "done"
  /\ hltbCalls["env"].recv = <<"ok", "script", "reject", "badJson">>
  /\ hltbCalls["env"].out = Return(None)

(* The candidates of the call's search response whose normalized name is
   the normalized query. *)
ExactMatches(call) ==
  {i \in 1..Len(call.data) : normalize(call.data[i].game_name) = normalize(call.gameName)}

(* The search response of the call that ended carried candidates. *)
Searched(call) == call.pc = "done" /\ Len(call.data) > 0

(* C14: when some candidate's normalized name equals the normalized query,
   searchGame returns the result of such a candidate, whatever the counters,
   the distances and the order of the candidates. *)
C14_ExactMatchWins ==
  \A c \in HltbCallers :
    (Searched(hltbCalls[c]) /\ ExactMatches(hltbCalls[c]) # {}) =>
      /\ hltbCalls[c].out.kind = "return"
      /\ hltbCalls[c].out.list # None
      /\ \E i \in ExactMatches(hltbCalls[c]) :
           hltbCalls[c].out.list[1] = mapToResult(hltbCalls[c].data[i])

C14_Witness ==
  /\ Searched(hltbCalls["env"])
  /\ hltbCalls["env"].gameName = <<"a", "b">>
  /\ Len(hltbCalls["env"].data) = 2
  /\ hltbCalls["env"].data[1].game_name = <<"b">>
  /\ hltbCalls["env"].data[1].comp_all_count = 2
  /\ hltbCalls["env"].data[2].game_name = <<"A", "colon", "b">>
  /\ hltbCalls["env"].data[2].comp_all_count = 1
  /\ hltbCalls["env"].out.list[1].id = 2

(* The edit distance of candidate i of the call to the query, both
   normalized. *)
Distance(call, i) == levenshtein(normalize(call.data[i].game_name), normalize(call.gameName))

(* C15: when no candidate matches exactly, searchGame returns the result of
   a candidate at the minimum edit distance from the query that has the
   largest comp_all_count among the candidates at that distance, whatever
   the order of the list. *)
C15_FuzzyMinDistanceThenCount ==
  \A c \in HltbCallers :
    (Searched(hltbCalls[c]) /\ ExactMatches(hltbCalls[c]) = {}) =>
      /\ hltbCalls[c].out.kind = "return"
      /\ hltbCalls[c].out.list # None
      /\ \E i \in 1..Len(hltbCalls[c].data) :
           /\ hltbCalls[c].out.list[1] = mapToResult(hltbCalls[c].data[i])
           /\ \A j \in 1..Len(hltbCalls[c].data) :
                /\ Distance(hltbCalls[c], i) <= Distance(hltbCalls[c], j)
                /\ Distance(hltbCalls[c], j) = Distance(hltbCalls[c], i) =>
                     hltbCalls[c].data[j].comp_all_count <= hltbCalls[c].data[i].comp_all_count

C15_Witness ==
  /\ Searched(hltbCalls["env"])
  /\ hltbCalls["env"].gameName = <<"a", "b">>
  /\ Len(hltbCalls["env"].data) = 2
  /\ hltbCalls["env"].data[1].game_name = <<"a", "e_acute">>
  /\ hltbCalls["env"].data[1].comp_all_count = 1
  /\ hltbCalls["env"].data[2].game_name = <<"b">>
  /\ hltbCalls["env"].data[2].comp_all_count = 2
  /\ hltbCalls["env"].out.list[1].id = 2

(* C16: a searchGame call whose init request or search POST was rejected
   returned null and left the client without a token; and the caller's next
   call starts with an init request, before any search POST. *)
C16_NetworkErrorClearsToken ==
  \A c \in HltbCallers :
    /\ NetworkFailed(hltbCalls[c]) =>
         hltbCalls[c].out = Return(None) /\ authToken = None
    /\ hltbCalls[c].afterNetworkError =>
         /\ Len(hltbCalls[c].sent) > 0
         /\ hltbCalls[c].sent[1].kind = "init"
         /\ \A i \in 1..Len(hltbCalls[c].sent) : hltbCalls[c].sent[i].kind = "search" => i > 1

C16_Witness ==
  /\ hltbCalls["env"].afterNetworkError
  /\ searchUrl = "/api/seek"
  /\ hltbCalls["env"].recv = <<"ok", "ok">>
  /\ hltbCalls["env"].sent[2].kind = "search"
  /\ hltbCalls["env"].out.list # None

(* The candidate the result of the call was mapped from: game_id is the
   candidate's position in the response. *)
Selected(call) == call.data[call.out.list[1].id]

(* hours, in tenths of an hour, is seconds / 3600 rounded half up to one
   decimal place: hours - 1/2 <= seconds / 360 < hours + 1/2. *)
IsRoundedHours(seconds, hours) ==
  /\ 360 * hours - 180 <= seconds
  /\ seconds < 360 * hours + 180

(* The call ended in a result. *)
Found(call) == call.pc = "done" /\ call.out.kind = "return" /\ call.out.list # None

(* C18: for every duration d >= 0 of the selected candidate, the hour figure
   of the result is d / 3600 rounded half up to one decimal place, and a
   duration of 0 seconds gives 0 hours in the result. *)
C18_HoursRoundedToOneDecimal ==
  \A c \in HltbCallers :
    Found(hltbCalls[c]) =>
      LET g == Selected(hltbCalls[c])
          r == hltbCalls[c].out.list[1]
      IN /\ g.comp_main >= 0 => IsRoundedHours(g.comp_main, r.mainStoryHours)
         /\ g.comp_plus >= 0 => IsRoundedHours(g.comp_plus, r.mainPlusExtrasHours)
         /\ g.comp_100 >= 0 => IsRoundedHours(g.comp_100, r.completionistHours)
         /\ g.comp_main = 0 => r.mainStoryHours = 0

C18_Witness ==
  /\ Found(hltbCalls["env"])
  /\ Selected(hltbCalls["env"]).comp_main = 1800
  /\ Selected(hltbCalls["env"]).comp_plus = 179
  /\ Selected(hltbCalls["env"]).comp_100 = 180
  /\ hltbCalls["env"].out.list[1].mainStoryHours = 5
  /\ hltbCalls["env"].out.list[1].mainPlusExtrasHours = 0
  /\ hltbCalls["env"].out.list[1].completionistHours = 1

(* C19: in every result searchGame returns, the three hour figures are at
   least 0, whatever durations the search response carries. *)
C19_HoursNeverNegative ==
  \A c \in HltbCallers :
    Found(hltbCalls[c]) =>
      /\ hltbCalls[c].out.list[1].mainStoryHours >= 0
      /\ hltbCalls[c].out.list[1].mainPlusExtrasHours >= 0
      /\ hltbCalls[c].out.list[1].completionistHours >= 0

(* The letter or digit a character stands for, case and diacritic apart;
   "" for a combining mark or a punctuation character. *)
BaseLetter(ch) ==
  CASE ch \in {"a", "A"} -> "a"
    [] ch \in {"b", "B"} -> "b"
    [] ch \in {"e", "E", "e_acute", "E_acute"} -> "e"
    [] ch = "3" -> "3"
    [] OTHER -> ""

RECURSIVE WordsOf(_, _)
(* The words of a name: its maximal runs without white space, each reduced
   to its base letters and digits, the empty ones dropped; word is the word
   being read. *)
WordsOf(str, word) ==
  IF Len(str) = 0 THEN IF word = <<>> THEN <<>> ELSE <<word>>
  ELSE IF str[1] \in WhiteSpace
  THEN (IF word = <<>> THEN <<>> ELSE <<word>>) \o WordsOf(Tail(str), <<>>)
  ELSE WordsOf(Tail(str),
               IF BaseLetter(str[1]) = "" THEN word ELSE Append(word, BaseLetter(str[1])))

(* Two names differ only in letter case, diacritics, punctuation and runs
   or edges of white space. *)
SameName(s, t) == WordsOf(s, <<>>) = WordsOf(t, <<>>)

(* C25: a query and a candidate name that differ only in letter case,
   diacritics, punctuation and runs or edges of white space have the same
   normalized form, and searchGame returns such a candidate as the exact
   match; normalizing a normalized name changes nothing. *)
C25_MatchingIgnoresCaseMarksPunctuation ==
  \A c \in HltbCallers :
    LET call == hltbCalls[c]
        same == {i \in 1..Len(call.data) : SameName(call.data[i].game_name, call.gameName)}
    IN /\ normalize(normalize(call.gameName)) = normalize(call.gameName)
       /\ \A i \in 1..Len(call.data) :
            normalize(normalize(call.data[i].game_name)) = normalize(call.data[i].game_name)
       /\ \A i \in same : normalize(call.data[i].game_name) = normalize(call.gameName)
       /\ (Searched(call) /\ same # {}) =>
            /\ call.out.kind = "return"
            /\ call.out.list # None
            /\ \E i \in same : call.out.list[1] = mapToResult(call.data[i])

C25_Witness ==
  /\ Searched(hltbCalls["env"])
  /\ hltbCalls["env"].gameName = SpacedName
  /\ Len(hltbCalls["env"].data) = 2
  /\ hltbCalls["env"].data[1].game_name = <<"a", "e_acute">>
  /\ hltbCalls["env"].data[2].game_name = <<"a", "tab", "E_acute">>
  /\ hltbCalls["env"].out.list # None
  /\ hltbCalls["env"].out.list[1].name = <<"a", "tab", "E_acute">>

(* C29: a searchGame call whose init request was rejected or answered
   without a token returned null, sent no other request, and left the
   client without a token and with the search path it had; the caller's
   next call starts with an init request. *)
C29_InitFailureLeavesUninitialized ==
  \A c \in HltbCallers :
    /\ InitFailed(hltbCalls[c]) =>
         /\ hltbCalls[c].pc = "done"
         /\ hltbCalls[c].out = Return(None)
         /\ Len(hltbCalls[c].sent) = 1 /\ hltbCalls[c].sent[1].kind = "init"
         /\ authToken = None
         /\ searchUrl = hltbCalls[c].urlAtStart
    /\ hltbCalls[c].afterInitFailure =>
         Len(hltbCalls[c].sent) > 0 /\ hltbCalls[c].sent[1].kind = "init"

C29_Witness ==
  /\ hltbCalls["env"].afterInitFailure
  /\ hltbCalls["env"].init = "noToken"
  /\ hltbCalls["env"].pc = "done"
  /\ hltbCalls["env"].urlAtStart = "/api/seek"

(* C30: after a call that got a token and ran the discovery, whatever path
   it produced, and completed without an exception, the caller's next call
   sends one request, the search POST, and no init, homepage or script
   request. *)
C30_ReadyCallsOnlyPost ==
  \A c \in HltbCallers :
    hltbCalls[c].afterReady =>
      /\ \A i \in 1..Len(hltbCalls[c].sent) : hltbCalls[c].sent[i].kind = "search"
      /\ Len(hltbCalls[c].sent) <= 1
      /\ hltbCalls[c].pc = "done" => Len(hltbCalls[c].sent) = 1

(* Discovery failed in the call: the homepage request was rejected or the
   page names no script, the script request was rejected, or the script has
   no usable fetch call. *)
DiscoveryFailed(call) ==
  \E i \in 1..Len(call.recv) :
    \/ call.sent[i].kind = "home" /\ call.recv[i] \in {"reject", "noScript"}
    \/ call.sent[i].kind = "script" /\ call.recv[i] = "reject"
    \/ call.sent[i].kind = "script" /\ call.recv[i] = "ok" /\ call.usable = {}

(* C31: when discovery fails at any step, searchGame goes on to send its
   search POST to /api/search with the token the instance holds, the token
   stays in place, and an answer with candidates gives the matched result:
   a discovery failure alone neither returns null nor clears the token. *)
C31_DiscoveryFailureFallsBack ==
  LET call == hltbCalls["env"]
      last == call.sent[Len(call.sent)]
  IN DiscoveryFailed(call) =>
       /\ call.pc \in {"awaitSearch", "done"}
       /\ last.kind = "search" /\ last.url = DefaultSearchUrl /\ last.token # None
       /\ call.pc = "awaitSearch" => authToken = last.token
       /\ call.pc = "done" /\ call.recv[Len(call.recv)] = "ok" =>
            /\ authToken = last.token
            /\ call.data # <<>> =>
                 call.out = Return(Some(mapToResult(bestMatch(call.data, call.gameName))))

C31_Witness ==
  LET call == hltbCalls["env"]
  IN /\ call.pc = "done" /\ Len(call.recv) = 4 /\ call.recv[3] = "reject"
     /\ call.sent[3].kind = "script" /\ call.out.kind = "return" /\ call.out.list # None

(* C33: when the fetched script has a POST fetch call to /api/<path> whose
   base path is not 'find', the search path becomes /api/<base path> of such
   a call, wherever that call stands among the script's fetch calls; the
   default path is taken only when the script has no such call. *)
C33_AdoptsAnyUsableFetchCall ==
  LET call == hltbCalls["env"]
      n == Len(call.recv)
  IN \A i \in 1..n :
       call.sent[i].kind = "script" /\ call.recv[i] = "ok" =>
         /\ call.sent[i + 1].kind = "search"
         /\ call.usable # {} => \E path \in call.usable : call.sent[i + 1].url = "/api/" \o path
         /\ call.usable = {} => call.sent[i + 1].url = DefaultSearchUrl

(* C32: the call after one that ended in the catch block of searchGame
   requests a new token and runs the discovery again, homepage request
   included, before it sends its search POST, whatever path was cached. *)
C32_FullRediscoveryAfterException ==
  \A c \in HltbCallers :
    LET sent == hltbCalls[c].sent
    IN hltbCalls[c].afterCaught =>
         \A k \in 1..Len(sent) :
           sent[k].kind = "search" =>
             \E i, j \in 1..(k - 1) : i < j /\ sent[i].kind = "init" /\ sent[j].kind = "home"

(* C37: every search POST carries a token, one that the init endpoint
   returned, also when calls on the same instance overlap. *)
C37_SearchPostCarriesToken ==
  \A c \in HltbCallers :
    \A i \in 1..Len(hltbCalls[c].sent) :
      hltbCalls[c].sent[i].kind = "search" =>
        hltbCalls[c].sent[i].token \in {r.token : r \in InitResponses} \ {None}

(* C5 as claimed: no public method of the completion-time client or of the
   artwork client ever propagates an exception. *)
C5_NoPublicMethodThrows ==
  /\ \A c \in HltbCallers : hltbCalls[c].out.kind # "throw"
  /\ \A c \in SgdbCallers : sgdbCalls[c].out.kind # "throw"

LastFailed(call) ==
  /\ Len(call.recv) > 0
  /\ call.recv[Len(call.recv)].kind \in {"reject", "error"}

(* C5 as amended: searchGame and getBestGrid never propagate an exception,
   every failure inside them ends in null; searchGames, getGrids, getHeroes
   and getLogos reject exactly when the API key is missing, the request is
   rejected or the service answers with an error envelope. *)
C5_OnlyBestGridAndSearchGameSwallow ==
  /\ \A c \in HltbCallers : hltbCalls[c].out.kind # "throw"
  /\ \A c \in SgdbCallers :
       /\ sgdbCalls[c].op = "getBestGrid" =>
            /\ sgdbCalls[c].out.kind # "throw"
            /\ (sgdbCalls[c].pc = "done" /\ (apiKey = "" \/ LastFailed(sgdbCalls[c]))) =>
                 sgdbCalls[c].out = Return(None)
       /\ (sgdbCalls[c].op \in SgdbListOps /\ sgdbCalls[c].pc = "done") =>
            (sgdbCalls[c].out.kind = "throw" <=> (apiKey = "" \/ LastFailed(sgdbCalls[c])))

C5_Witness ==
  /\ sgdbCalls["env"].op = "getBestGrid"
  /\ sgdbCalls["env"].pc = "done"
  /\ Len(sgdbCalls["env"].recv) = 2
  /\ sgdbCalls["env"].recv[2].kind = "error"
  /\ sgdbCalls["env"].out = Return(None)
  /\ authToken # None

(***************************************************************************)
(* Claims about IgdbClient                                                 *)
(***************************************************************************)
ConfigError == "Twitch Client ID and Secret not configured"
CountKind(log, k) == Cardinality({i \in 1..Len(log) : log[i].kind = k})

(* C7: with an empty client id or client secret, every call of searchGames,
   getGameById and getGameBySlug, the first and all later ones, rejects with
   the configuration error, and the instance never sends a token request or
   a catalog request. *)
C7_MissingCredentialsReject ==
  (clientId = "" \/ clientSecret = "") =>
    /\ igdbLog = <<>>
    /\ \A c \in IgdbCallers :
         /\ igdbCalls[c].pc \in {"idle", "done"}
         /\ igdbCalls[c].pc = "done" =>
              igdbCalls[c].out = Throw(ConfigError) /\ igdbCalls[c].sent = <<>>

C7_Witness ==
  /\ clientId = "id" /\ clientSecret = ""
  /\ igdbHist.started = MaxIgdbCalls
  /\ igdbCalls["env"].pc = "done"
  /\ igdbCalls["env"].op = "getGameBySlug"

(* C8: a call whose token request was rejected rejects to its caller and
   has sent no catalog request. *)
C8_TokenFailurePropagates ==
  \A c \in IgdbCallers :
    (Len(igdbCalls[c].sent) > 0 /\ igdbCalls[c].sent[1].kind = "token"
       /\ Len(igdbCalls[c].recv) > 0 /\ igdbCalls[c].recv[1] = "reject") =>
      /\ igdbCalls[c].pc = "done"
      /\ igdbCalls[c].out.kind = "throw"
      /\ CountKind(igdbCalls[c].sent, "catalog") = 0

C8_Witness ==
  /\ igdbCalls["env"].op = "getGameById"
  /\ igdbCalls["env"].sent = <<[kind |-> "token", bearer |-> None]>>
  /\ igdbCalls["env"].recv = <<"reject">>
  /\ igdbCalls["env"].out.kind = "throw"

(* C9: while every call after the first starts inside the window of the
   token the first call was granted, the instance has sent exactly one token
   request, before everything else, and one catalog request per call. *)
C9_TokenReuse ==
  (igdbHist.grant # None /\ ~igdbHist.strayed) =>
    /\ CountKind(igdbLog, "token") = 1
    /\ igdbLog[1].kind = "token"
    /\ CountKind(igdbLog, "catalog") = igdbHist.started

C9_Witness ==
  /\ igdbHist.grant # None /\ ~igdbHist.strayed
  /\ igdbHist.started = 3
  /\ now > igdbHist.grant[1].at
  /\ igdbCalls["env"].pc = "done"

(* C28: after a token response with a token and a lifetime of e seconds,
   received at time t, the recorded expiry is t + (e - 300) seconds; with
   the credentials set, a call that starts with a token cached and before
   the recorded expiry sends no token request, and any other call sends
   exactly one, before its catalog request; so a token whose lifetime is at
   most 300 seconds is requested again by every call. *)
C28_TokenExpiryAndReuse ==
  /\ igdbHist.grant # None =>
       tokenExpiry = Some(igdbHist.grant[1].at
                          + (igdbHist.grant[1].expires_in - 300) * 1000)
  /\ \A c \in IgdbCallers :
       (igdbCalls[c].pc # "idle" /\ clientId # "" /\ clientSecret # "") =>
         LET sent == igdbCalls[c].sent
         IN /\ Len(sent) \in 1..2
            /\ igdbCalls[c].fresh => sent = <<sent[1]>> /\ sent[1].kind = "catalog"
            /\ ~igdbCalls[c].fresh =>
                 /\ sent[1].kind = "token"
                 /\ Len(sent) = 2 => sent[2].kind = "catalog"
  /\ (igdbHist.grant # None /\ igdbHist.grant[1].expires_in <= 300) =>
       ~InGrantWindow

C28_Witness ==
  /\ igdbHist.grant # None
  /\ igdbHist.grant[1].expires_in = 300
  /\ igdbHist.started = 2
  /\ igdbLog = <<[kind |-> "token", bearer |-> None], [kind |-> "catalog", bearer |-> Some("tok1")],
                 [kind |-> "token", bearer |-> None], [kind |-> "catalog", bearer |-> Some("tok2")]>>
  /\ igdbCalls["env"].pc = "done"

(* C38: every catalog request carries as bearer token a defined, non-empty
   access_token; after a token response without an access_token no catalog
   request is sent. *)
C38_BearerIsAToken ==
  \A i \in 1..Len(igdbLog) :
    igdbLog[i].kind = "catalog" => Truthy(igdbLog[i].bearer)

(* The catalog answered the call with a result list. *)
CatalogAnswered(call) ==
  call.pc = "done" /\ Len(call.recv) > 0 /\ call.recv[Len(call.recv)] = "ok"

(* C23: getGameById and getGameBySlug return the first element of the
   catalog's result list when it is not empty, and return null, without an
   error, when it is empty. *)
C23_FirstElementOrNull ==
  \A c \in IgdbCallers :
    (igdbCalls[c].op \in {"getGameById", "getGameBySlug"} /\ CatalogAnswered(igdbCalls[c])) =>
      /\ igdbCalls[c].out.kind = "return"
      /\ Len(igdbCalls[c].data) > 0 => igdbCalls[c].out.list = Some(igdbCalls[c].data[1])
      /\ Len(igdbCalls[c].data) = 0 => igdbCalls[c].out.list = None

C23_Witness ==
  /\ igdbCalls["env"].op = "getGameBySlug"
  /\ CatalogAnswered(igdbCalls["env"])
  /\ Len(igdbCalls["env"].data) = 2
  /\ igdbCalls["env"].data[1] # igdbCalls["env"].data[2]
  /\ igdbCalls["env"].out.list = Some(igdbCalls["env"].data[1])

(* The last response of the artwork call was an error envelope. *)
SgdbEnvelope(call) ==
  Len(call.recv) > 0 /\ call.recv[Len(call.recv)].kind = "error"

(* C24: a call of searchGames, getGameById or getGameBySlug that the catalog
   answered with an error envelope throws, and so does a call of the artwork
   client's searchGames, getGrids, getHeroes or getLogos, with the messages
   of the envelope joined by commas or with the generic message when there
   are none; none of them returns a result or null. *)
C24_ErrorEnvelopeThrows ==
  /\ \A c \in IgdbCallers :
       (Len(igdbCalls[c].recv) > 0 /\ igdbCalls[c].recv[Len(igdbCalls[c].recv)] = "error") =>
         igdbCalls[c].out.kind = "throw"
  /\ \A c \in SgdbCallers :
       (sgdbCalls[c].op \in SgdbListOps /\ SgdbEnvelope(sgdbCalls[c])) =>
         LET errors == sgdbCalls[c].recv[Len(sgdbCalls[c].recv)].errors
         IN /\ sgdbCalls[c].out.kind = "throw"
            /\ sgdbCalls[c].out.err =
                 IF errors # None /\ Join(errors[1], ", ") # ""
                 THEN Join(errors[1], ", ") ELSE "SteamGridDB API error"

(* C22: a call of searchGames that returned, returned at most limit games,
   whatever the number of games in the catalog's response. *)
C22_SearchGamesAtMostLimit ==
  \A c \in IgdbCallers :
    (igdbCalls[c].op = "searchGames" /\ igdbCalls[c].out.kind = "return") =>
      Len(igdbCalls[c].out.list) <= igdbCalls[c].limit[1]

(***************************************************************************)
(* Claims about SteamGridDbClient                                          *)
(***************************************************************************)

(* C6: with an empty API key, searchGames, getGrids, getHeroes and getLogos
   reject at once with the 'API key not configured' error: the call never
   waits for a response and has sent no request. *)
C6_MissingKeyRejectsAtOnce ==
  \A c \in SgdbCallers :
    (apiKey = "" /\ sgdbCalls[c].op \in SgdbListOps) =>
      /\ sgdbCalls[c].pc = "done"
      /\ sgdbCalls[c].out = Throw(MissingKeyError)
      /\ sgdbCalls[c].sent = <<>>

C6_Witness ==
  /\ apiKey = ""
  /\ sgdbCalls["env"].op = "getGrids"
  /\ sgdbCalls["env"].pc = "done"
  /\ sgdbCalls["env"].out.kind = "throw"

MaxOf(S) == CHOOSE m \in S : \A x \in S : x <= m
Scores(grids) == {grids[i].score : i \in 1..Len(grids)}

(* The getBestGrid calls whose styled query came back with candidates. *)
StyledFound(call) ==
  /\ call.op = "getBestGrid"
  /\ Len(call.recv) > 0
  /\ call.recv[1].kind = "ok" /\ call.recv[1].data # <<>>

(* C11: when the styled query returns candidates, in any order, getBestGrid
   returns one of them with the maximum score, after exactly one request. *)
C11_StyledReturnsMaxScore ==
  \A c \in SgdbCallers :
    StyledFound(sgdbCalls[c]) =>
      /\ sgdbCalls[c].pc = "done"
      /\ sgdbCalls[c].out.kind = "return"
      /\ sgdbCalls[c].out.list # None
      /\ \E i \in 1..Len(sgdbCalls[c].recv[1].data) :
           sgdbCalls[c].out.list[1] = sgdbCalls[c].recv[1].data[i]
      /\ sgdbCalls[c].out.list[1].score = MaxOf(Scores(sgdbCalls[c].recv[1].data))
      /\ Len(sgdbCalls[c].sent) = 1 /\ Len(sgdbCalls[c].recv) = 1

C11_Witness ==
  /\ StyledFound(sgdbCalls["env"])
  /\ sgdbCalls["env"].recv[1].data = GridList(<<0, 2>>)
  /\ sgdbCalls["env"].out.list[1].id = 2

(* Some query of the call was rejected or answered with an error envelope. *)
SomeQueryFailed(call) ==
  \E i \in 1..Len(call.recv) : call.recv[i].kind \in {"reject", "error"}

(* C12: getBestGrid never throws, and returns null when the API key is
   missing (without sending a request) and when either of its two queries
   is rejected or answered with an error envelope. *)
C12_BestGridNeverThrows ==
  \A c \in SgdbCallers :
    sgdbCalls[c].op = "getBestGrid" =>
      /\ sgdbCalls[c].out.kind # "throw"
      /\ apiKey = "" =>
           /\ sgdbCalls[c].pc = "done"
           /\ sgdbCalls[c].out = Return(None)
           /\ sgdbCalls[c].sent = <<>>
      /\ SomeQueryFailed(sgdbCalls[c]) =>
           sgdbCalls[c].pc = "done" /\ sgdbCalls[c].out = Return(None)

C12_Witness ==
  /\ sgdbCalls["env"].op = "getBestGrid"
  /\ Len(sgdbCalls["env"].recv) = 2
  /\ sgdbCalls["env"].recv[1].kind = "ok"
  /\ sgdbCalls["env"].recv[2].kind = "reject"
  /\ sgdbCalls["env"].out = Return(None)

(* The getBestGrid calls whose styled query came back empty and whose
   fallback query came back with candidates. *)
FellBack(call) ==
  /\ call.op = "getBestGrid"
  /\ call.pc = "done"
  /\ Len(call.recv) = 2
  /\ call.recv[1].kind = "ok" /\ call.recv[1].data = <<>>
  /\ call.recv[2].kind = "ok" /\ call.recv[2].data # <<>>

(* C10: when the styled query returns no candidate and the fallback query
   returns some, in any order, getBestGrid returns a candidate of the
   fallback result with the maximum score, after exactly two requests. *)
C10_FallbackReturnsMaxScore ==
  \A c \in SgdbCallers :
    FellBack(sgdbCalls[c]) =>
      /\ sgdbCalls[c].out.kind = "return"
      /\ sgdbCalls[c].out.list # None
      /\ sgdbCalls[c].out.list[1].score = MaxOf(Scores(sgdbCalls[c].recv[2].data))
      /\ Len(sgdbCalls[c].sent) = 2

====
